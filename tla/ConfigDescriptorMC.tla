------------------------- MODULE ConfigDescriptorMC -------------------------
(***************************************************************************)
(* Model-checking instance of ConfigDescriptor: every list of up to three   *)
(* descriptors of the kinds below, cut after every byte.  They are compared *)
(* with every list of those kinds whose length byte is true.                *)
(***************************************************************************)
EXTENDS ConfigDescriptor, SequencesExt

\* The length byte, the type byte, and how many bytes there really are.
Kind(len, type, size) == [len |-> len, type |-> type, size |-> size]

TrueKinds == {Kind(9, 4, 9), Kind(7, 5, 7), Kind(8, 5, 8), Kind(10, 5, 10), Kind(6, 5, 6)}

Kinds == TrueKinds \cup {Kind(0, 5, 2), Kind(1, 5, 2), Kind(255, 5, 7)}

ListsOf(kinds) == UNION {[1 .. n -> kinds] : n \in 0 .. 3}

Bytes(d) == [i \in 1 .. d.size |-> CASE i = 1 -> d.len [] i = 2 -> d.type [] OTHER -> 5]

End(ds, i) == FoldLeft(LAMBDA sum, d : sum + d.size, 0, SubSeq(ds, 1, i))

Laid(ds) == [i \in DOMAIN ds |-> [from |-> End(ds, i - 1), bytes |-> Bytes(ds[i])]]

MCLayouts == {Laid(ds) : ds \in ListsOf(TrueKinds)}

Joined(ds) == FlattenSeq([i \in DOMAIN ds |-> Bytes(ds[i])])

MCInputs ==
  UNION {{SubSeq(all, 1, cut) : cut \in 0 .. Len(all)} : all \in {Joined(ds) : ds \in ListsOf(Kinds)}}
=============================================================================
