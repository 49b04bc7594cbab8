-------------------------- MODULE MCServerIngress ---------------------------
(* What a server makes of the first bytes of a connection: IngressDecision on  *)
(* one complete input, one input for every field that can be missing and the   *)
(* configurations they make, or Wire with bytes below 16, so that a payload of *)
(* 17 bytes needs both bytes of its length, and hosts and payloads that        *)
(* contain CR LF.  part says which; the other keeps its first state.           *)
EXTENDS IngressDecision, Wire

VARIABLE part

MCInit ==
    /\ part \in {"decision", "wire"}
    /\ IngressInit /\ WireInit
    /\ part = "decision" => exchange = "answer"
    /\ part = "wire" => config = CHOOSE c \in Configs : TRUE

MCNext ==
    \/ part = "decision" /\ IngressNext /\ UNCHANGED <<part, wireVars>>
    \/ part = "wire" /\ WireNext /\ UNCHANGED <<part, ingressVars>>

MCSpec == MCInit /\ [][MCNext]_<<part, ingressVars, wireVars>>
-----------------------------------------------------------------------------
Good == [source_name |-> TRUE,
         context |-> [trusted_front_id |-> TRUE, original_client_ip |-> TRUE,
                      negotiated_alpn |-> "h2", tls_terminated_by_front |-> TRUE,
                      metadata_verified |-> TRUE]]

MCInputs ==
    {Good, [Good EXCEPT !.source_name = FALSE],
     [Good EXCEPT !.context.negotiated_alpn = "none"]}
    \cup {[Good EXCEPT !.context[f] = FALSE] :
            f \in {"trusted_front_id", "original_client_ip", "tls_terminated_by_front",
                   "metadata_verified"}}

FewInputs == {Good, [Good EXCEPT !.context.tls_terminated_by_front = FALSE],
              [Good EXCEPT !.context.negotiated_alpn = "none"]}

\* The settings of the front's listener and those of the public one's sessions are not
\* used together.
MCConfigs ==
    [enabled : Bools, stub : Bools,
     envelope : {{}, {[json |-> TRUE, input |-> Good]}, {[json |-> FALSE, input |-> Good]},
                 {[json |-> TRUE, input |-> [Good EXCEPT !.source_name = FALSE]]}},
     stub_input : FewInputs, inject : Bools,
     test_context : {i.context : i \in FewInputs}, loopback_only : {FALSE}, mtls : {FALSE}]
    \cup
    [enabled : {TRUE}, stub : {FALSE}, envelope : {{}}, stub_input : {Good}, inject : {FALSE},
     test_context : {Good.context}, loopback_only : Bools, mtls : Bools]

Repeat(b, n) == [i \in 1..n |-> b]
MCPasswords == {<<7, 7>>, <<13>>}
MCTargets == {
    [type |-> 3, host |-> <<13, 10, 1>>, port |-> 18],
    [type |-> 3, host |-> Repeat(5, 15), port |-> 255],
    [type |-> 1, host |-> <<1, 13, 10, 3>>, port |-> 218],
    [type |-> 1, host |-> <<0, 0, 0, 0>>, port |-> 5],
    [type |-> 4, host |-> Repeat(3, 15) \o <<4>>, port |-> 16]}
MCPayloads == {<<>>, <<13, 10>>, Repeat(1, 17)}
=============================================================================
