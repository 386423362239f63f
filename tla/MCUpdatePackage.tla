-------------------------- MODULE MCUpdatePackage --------------------------
(* UpdatePackage with two components, three package options and versions   *)
(* with and without pre-release, build, leading zeros, words that begin    *)
(* with a digit or a hyphen, and numbers that do not fit: an int is at     *)
(* most 2 here.                                                            *)
EXTENDS UpdatePackage, TLC

CONSTANTS d1, d2

V(core, pre, build) == [core |-> core, pre |-> pre, build |-> build]

Id(kind, value, text) == [kind |-> kind, value |-> value, text |-> text]

(* Texts in the order of bytes. *)
MinusOne == Id("signed", -1, 1)
MinusNine == Id("signed", -9, 2)
PaddedTwo == Id("numeral", 2, 3)
One == Id("numeral", 1, 4)
Ten == Id("numeral", 10, 5)
OneA == Id("word", 0, 6)
Two == Id("numeral", 2, 7)
A == Id("word", 0, 8)
RC == Id("word", 0, 9)

Alpha == V(<<1, 0, 0>>, <<A, Two>>, <<>>)
Rc == V(<<1, 0, 0>>, <<RC>>, <<>>)
Number == V(<<1, 0, 0>>, <<One, A>>, <<>>)
Final == V(<<1, 0, 0>>, <<>>, <<A>>)
Major == V(<<2, 0, 0>>, <<A>>, <<>>)
Huge == V(<<1, 0, MaxInt + 1>>, <<>>, <<>>)

MCFirstVersions == {Alpha}

MCVersions == {Alpha, Rc, Number, Final, Major, Huge}
    \cup {V(<<1, 0, 0>>, <<A, id>>, <<>>) :
               id \in {MinusOne, MinusNine, PaddedTwo, Ten, OneA}}

Option(components, release, minimum, channel, key) ==
    [components |-> components, release |-> release, minimum |-> minimum,
     channel |-> channel, architecture |-> "linux-amd64", key |-> key]

MCPackageOptions ==
    {Option({"updater", "greeter"}, Rc, Alpha, "stable", "stable-key"),
     Option({"greeter"}, Final, Number, "stable", "stable-key"),
     Option({"updater"}, Major, Rc, "development", "other-key")}

Symmetry == Permutations({d1, d2})
============================================================================
