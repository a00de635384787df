-------------------------------- MODULE MCNid --------------------------------
(* Instances of Nid for TLC: a joystick with two elements and one with one. *)
EXTENDS Nid

Sizes == <<2, 1>>

\* The driver, with and without DUMP_EVENTS.
Drivers == {new_nid_driver(1, TRUE), new_nid_driver(1, FALSE)}

\* The tool.  It loses events (NothingSkipped fails), as the README tells.
Snoop == {nid_snoop(1, 2)}

\* Clients that the repository does not have, for which AnswersWhatIsAsked and
\* DumpReturns fail, as the README tells: one that asks for one element of
\* two, and one that calls nidDumpEvents without a notice.
QueryOne == {<<Call("QUERY_ELEMENTS", <<<<1, 2>>>>)>>}
DumpAtOnce == {<<Call("COMPRESS_EVENTS", <<>>), Call("DUMP_EVENTS", <<>>)>>}
=============================================================================
