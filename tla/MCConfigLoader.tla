--------------------------- MODULE MCConfigLoader ---------------------------
(***************************************************************************)
(* The loader on documents built from a few values per key: every header  *)
(* (version, directory, engine path) with no, a non-array, or an empty    *)
(* disk list, and the good header with every list of at most two disks.   *)
(***************************************************************************)
EXTENDS ConfigLoader

Version10 == JStr(<<Num(1), Dot, Num(0)>>)

Versions    == {Absent, Version10, JStr(<<Num(1), Dot, Num(1)>>), JUnsigned(1)}
Directories == {Absent, JStr("d"), JUnsigned(1)}
Engines     == {Absent, JStr("e"), JUnsigned(1)}

Sizes == {Absent, JUnsigned(5), [t |-> "integer", n |-> -1],
          JStr(<<Num(5), Word("KB")>>), [t |-> "boolean", b |-> TRUE], [t |-> "null"]}
Disks == {[t |-> "string", s |-> "p"]} \cup
         {[t |-> "object", path |-> p, max_size |-> m] :
            p \in {Absent, JStr(""), JStr("p")}, m \in Sizes}

Doc(v, d, e, dd) ==
  [kind |-> "object", version |-> v, directory |-> d,
   engine_config_path |-> e, data_directories |-> dd]

MCDocs ==
  {Doc(v, d, e, dd) : v \in Versions, d \in Directories, e \in Engines,
                      dd \in {Absent, [t |-> "object"], [t |-> "array", elems |-> <<>>]}}
  \cup {Doc(Version10, JStr("d"), Absent, [t |-> "array", elems |-> ds]) :
          ds \in BoundedSeq(Disks, 2)}
  \cup {[NullDoc EXCEPT !.kind = "array"]}
=============================================================================
