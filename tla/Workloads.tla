------------------------------- MODULE Workloads ------------------------------
(***************************************************************************)
(* The programs that use the queues, side by side: one of them is launched *)
(* and runs to its end.                                                    *)
(***************************************************************************)
EXTENDS RayTrace, RayPasses, BfsLevels, FifoCheck

vars == <<rayVars, passVars, bfsVars, checkVars>>

\* A grid (four vertices in a ring), a hub with five neighbours in a MatrixMarket file
\* of seven rows, where the last vertex stands alone, and a SNAP file that counts from 1.
Graphs ==
  {build_grid(2, 2),
   load_mtx(7, 5, {<<1, 2>>, <<1, 3>>, <<1, 4>>, <<5, 1>>, <<2, 2>>, <<6, 1>>, <<3, 6>>}),
   load_snap({<<1, 2>>, <<2, 3>>, <<3, 1>>, <<3, 4>>})}

Init == RtInit /\ RpInit /\ BfsInit /\ FcInit

Unused ==
  rtKernel = "off" /\ stage = "off" /\ bfsKernel = "off" /\ checkStage = "off"

Next ==
  \/ /\ (Unused /\ RtLaunch) \/ RtStep
     /\ UNCHANGED <<passVars, bfsVars, checkVars>>
  \/ /\ (Unused /\ RpLaunch) \/ RpStep
     /\ UNCHANGED <<rayVars, bfsVars, checkVars>>
  \/ /\ \/ Unused /\ \E g \in Graphs : \E src \in {-1, 1} : BfsLaunch(g, src)
        \/ BfsStep
     /\ UNCHANGED <<rayVars, passVars, checkVars>>
  \/ /\ (Unused /\ FcLaunch) \/ FcStep
     /\ UNCHANGED <<rayVars, passVars, bfsVars>>

Spec == Init /\ [][Next]_vars
FairSpec == Spec /\ RtFairness /\ RpFairness /\ BfsFairness /\ FcFairness

\* Every program comes to its end: all workers leave and all kernels return, apart from
\* the hangs of the code that Hangs, Starved and Overfull describe.
WorkloadsEnd == TraceEnds /\ PassesEnd /\ BfsEnds /\ CheckEnds
===============================================================================
