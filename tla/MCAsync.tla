------------------------------ MODULE MCAsync ------------------------------
(***************************************************************************)
(* A callback waits for a method of actor A, which awaits a provider, a    *)
(* method of its own, a method of actor B and a function of no actor;      *)
(* these await a provider each.                                            *)
(***************************************************************************)
EXTENDS Async

CONSTANTS A, B, main, p, q, r, callback, method, own, others, free

TheCalls ==
    [f \in {callback, method, own, others, free} |->
        CASE f = callback -> <<method>>
          [] f = method -> <<p, own, others, free>>
          [] f = own -> <<>>
          [] f = others -> <<q>>
          [] f = free -> <<r>>]

TheActors ==
    [f \in {callback, method, own, others, free} |->
        CASE f \in {method, own} -> A
          [] f = others -> B
          [] OTHER -> None]
=============================================================================
