-------------------------- MODULE MCMeasuredEngine --------------------------
(* Two engines, two block contents, two descriptors. *)
EXTENDS MeasuredEngine

PlainElf == [platform |-> TRUE, viewsAgree |-> TRUE, tags |-> {}, libraries |-> {"runtime"}, symbols |-> {"func"},
          undefined |-> {[name |-> "gmon", weak |-> TRUE, library |-> "none"],
                         [name |-> "malloc", weak |-> FALSE, library |-> "runtime"]},
          entries |-> TRUE]

(* A torn copy can be an ELF file that passes, or none at all. *)
MCElf == (<<1, 1>> :> PlainElf) @@ (<<2, 2>> :> PlainElf) @@ (<<1, 2>> :> PlainElf)

Artifacts == {<<[rank |-> 1, here |-> TRUE, ffi |-> <<1, 1>>], [rank |-> 2, here |-> FALSE, ffi |-> <<1, 2>>]>>,
              <<[rank |-> 1, here |-> TRUE, ffi |-> <<2, 2>>]>>}
MCSetDigest == [s \in Artifacts |-> s[1].ffi[1]]
Records == {[native |-> n, wellFormed |-> TRUE] : n \in {1, 2}}
MCRecordDigest == [r \in Records |-> 10 * r.native]
SetOf(n) == CHOOSE s \in Artifacts : MCSetDigest[s] = n
Record(n) == [native |-> n, wellFormed |-> TRUE]
ProfileEntry(n, m) == [id |-> 10 * n, record |-> Record(n), artifacts |-> SetOf(m)]

(* A file in order, and one that lists another build than it commits to. *)
MCProfileFiles == {[canonical |-> TRUE, version |-> 1, profiles |-> <<ProfileEntry(1, 1), ProfileEntry(2, 2)>>],
                   [canonical |-> TRUE, version |-> 1, profiles |-> <<ProfileEntry(1, 2), ProfileEntry(2, 1)>>]}
=============================================================================
