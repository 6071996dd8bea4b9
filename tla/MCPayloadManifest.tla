------------------------- MODULE MCPayloadManifest -------------------------
(***************************************************************************)
(* Payloads of at most four entries over three paths.  One entry of each   *)
(* kind that seal tells apart, hard links to every other path, to itself   *)
(* and with each field of the metadata changed alone.                      *)
(***************************************************************************)
EXTENDS PayloadManifest

Epoch == [seconds |-> 0, nanoseconds |-> 0]
Later == [seconds |-> 0, nanoseconds |-> 1]
MCTarget == {<<"t">>}
MCTime == {Epoch, Later}

Plain == [mode |-> 0, uid |-> 0, gid |-> 0, modification_time |-> Epoch]
File(path) == regular_entry(path, Plain, 0, "d")
Link(path, target) == hardlink_entry(path, Plain, target)

MCEntries ==
    {File("p"), File("q"), [File("p") EXCEPT !.mode = 1],
     directory_entry("p", Plain), symlink_entry("r", Plain, <<"t">>),
     Link("q", "p"), Link("r", "p"), Link("r", "q"), Link("p", "q"), Link("r", "r"),
     [Link("r", "p") EXCEPT !.mode = 1], [Link("r", "p") EXCEPT !.uid = 1],
     [Link("r", "p") EXCEPT !.gid = 1], [Link("r", "p") EXCEPT !.modification_time = Later]}

MCManifests == UNION {[1..n -> MCEntries] : n \in 0..4}

=============================================================================
