------------------------------ MODULE MCMsgCore ------------------------------
(***************************************************************************)
(* Instances of MsgCore for TLC.                                           *)
(***************************************************************************)
EXTENDS MsgCore, TLC

CONSTANTS s1, s2, own, host, swid, none, stray, t1, t2, noSensor

MCPeriphs == {1073763328, 1073764352}    \* I2C0, I2C1
MCPeriphOf == 0 :> 1073763328 @@ 1 :> 1073764352
MCConsoleIds == {own, swid}

Symmetry == Permutations({s1, s2}) \union Permutations({t1, t2})

\* With MaxReq requests posed and everything disposed of, the instance rests.
Rest ==
    /\ NextNo > MaxReq
    /\ com = "idle" /\ upl = "idle"
    /\ recvQ = <<>> /\ respQ = <<>> /\ bus = {}
    /\ UNCHANGED vars

MCSpec == Init /\ [][Next \/ Rest]_vars
MCFairSpec == MCSpec /\ Fairness

=============================================================================
