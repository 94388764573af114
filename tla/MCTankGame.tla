------------------------------ MODULE MCTankGame ------------------------------
(* The demo's own accounts and policies, two users of tank-a and one of     *)
(* tank-b.                                                                  *)
EXTENDS TankGame

MCUsers == {"alice", "bob", "charlie"}

MCAccounts ==
    [d \in Devices |-> IF d = "tank-a" THEN [u \in {"alice", "bob"} |-> "right"]
                       ELSE [u \in {"charlie"} |-> "right"]]

MCPermits ==
    [d \in Devices |-> [u \in MCUsers |->
        CASE d = "tank-a" /\ u = "alice" -> Ops \ {"fire"}
          [] d = "tank-a" /\ u = "bob" -> {"fire", "stop"}
          [] d = "tank-b" /\ u = "charlie" -> Ops \ {"fire"}
          [] OTHER -> {}]]

MCTyped == {<<"alice", "right">>, <<"bob", "right">>, <<"bob", "wrong">>, <<"charlie", "right">>}

MCTerms == {<<20, 36>>, <<41, 80>>, <<9, 80>>}
===============================================================================
