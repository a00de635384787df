------------------------------ MODULE MCVeRun ------------------------------
(* An instance of VeRun for TLC.  There are windows on another machine, in  *)
(* a thread of the master, and in a local process that may be missing;      *)
(* another machine plays sound, unless the table of slaves is full.         *)
EXTENDS VeRun, TLC

CONSTANTS wall, desk, inner, sound, t1, t2, t3

Methods == wall :> "remote" @@ sound :> "remote" @@ desk :> "local" @@ inner :> "thread"

OfWindows == << [slave |-> wall, async |-> FALSE],
                [slave |-> desk, async |-> TRUE],
                [slave |-> inner, async |-> FALSE],
                [slave |-> wall, async |-> FALSE] >>
OfChannels == <<sound, inner, desk>>
=============================================================================
