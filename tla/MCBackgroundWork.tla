--------------------------- MODULE MCBackgroundWork ---------------------------
(* Loads with the options the driver derives from a fanout.  MCSpec is Spec  *)
(* with a client that is slow: it acts only when no background job is left,  *)
(* as in the example the driver's comment works through.                     *)
EXTENDS BackgroundWork

CONSTANT Fanout

MCSizeAmp == 100 * ((Fanout - 1) + Fanout \div (Fanout - 1))
MCNumLevels == Fanout * 5

Quiet ==
    bg.unscheduledFlushes + bg.flushesScheduled
        + bg.unscheduledCompactions + bg.compactionsScheduled = 0

MCSpec == Init /\ [][Next /\ (client' # client => Quiet \/ client # "put")]_vars

-----------------------------------------------------------------------------
(* Properties.                                                             *)

\* "Print out initial LSM state": when waitForBGCompactions has returned, no
\* flush or compaction that changes the printed runs is left.  One may be left
\* when it was queued between two polls: see the README.
SettledWhenDone == client = "done" => Quiet

=============================================================================
