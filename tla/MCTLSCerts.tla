----------------------------- MODULE MCTLSCerts -----------------------------
(* Instances of TLSCerts for model checking. *)
EXTENDS TLSCerts

Plain(q) == [secrets |-> q, certmagic |-> FALSE]

\* One secret, loaded or left to CertMagic.
OneSecret == {Plain(<<"s">>), [secrets |-> <<"s">>, certmagic |-> TRUE]}

\* Two secrets of one Ingress, and each of them alone.
BothSpecs == {Plain(<<"s">>), Plain(<<"t">>), Plain(<<"s", "t">>)}
=============================================================================
