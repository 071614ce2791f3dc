-------------------------- MODULE MCLumiProcessing --------------------------
(* Sources: sequences of items with their run, lumi and interval of validity. *)
EXTENDS LumiProcessing

File == [type |-> "file", run |-> 0, lumi |-> 0, iov |-> 0]
Run(r, i) == [type |-> "run", run |-> r, lumi |-> 0, iov |-> i]
LumiBlock(r, l, i) == [type |-> "lumi", run |-> r, lumi |-> l, iov |-> i]
Event(r, l, i) == [type |-> "event", run |-> r, lumi |-> l, iov |-> i]

(* Two lumis with different intervals, a third with the last one's.        *)
ThreeLumis == <<File, Run(1, 1), LumiBlock(1, 1, 1), Event(1, 1, 1), Event(1, 1, 1),
                LumiBlock(1, 2, 2), Event(1, 2, 2), LumiBlock(1, 3, 2)>>
(* A lumi that goes on in the next file, where another run follows.        *)
TwoFiles == <<File, Run(1, 1), LumiBlock(1, 1, 1), Event(1, 1, 1), File, Run(1, 1),
              LumiBlock(1, 1, 1), Event(1, 1, 1), LumiBlock(1, 2, 2), Run(2, 2), LumiBlock(2, 1, 2), Event(2, 1, 2)>>
(* Two lumis with different intervals, and a second run.                   *)
TwoRuns == <<File, Run(1, 1), LumiBlock(1, 1, 1), Event(1, 1, 1), LumiBlock(1, 2, 2), Event(1, 2, 2),
             Run(2, 2), LumiBlock(2, 1, 2)>>
(* The shortest source with two lumis.                                     *)
TwoLumis == <<File, Run(1, 1), LumiBlock(1, 1, 1), Event(1, 1, 1), LumiBlock(1, 2, 1)>>

AllTransitions == {"nextItem", "readFile", "closeInput", "closeOutput", "openOutput", "readRun", "beginRun", "endRun",
                   "iov", "read", "globalBegin", "streamBegin", "readEvent", "event", "streamEnd", "globalEnd"}
=============================================================================
