-------------------------- MODULE SemanticVersions --------------------------
(***************************************************************************)
(* Release versions, and the two functions that compare them: the updater  *)
(* decides with compareVersions whether a release may be installed, the    *)
(* server tells with compareSemanticVersions whether a client is behind.   *)
(*                                                                         *)
(* A version is the text MAJOR.MINOR.PATCH[-PRE][+BUILD], kept in parts.   *)
(* A part of PRE is a numeral (digits only, leading zeros allowed), a      *)
(* hyphen followed by digits, which strconv.Atoi reads as a number below   *)
(* zero, or another word.  Of its text only the place among all texts, in  *)
(* the order of bytes, matters.  Numbers have the width of a Go int:       *)
(* MaxInt is the largest, -MaxInt - 1 the smallest.                        *)
(***************************************************************************)
EXTENDS Integers, Sequences

CONSTANT MaxInt

ASSUME MaxIntIsNatural == MaxInt \in Nat

(* value is the number that is written, 0 for other words; text is the     *)
(* place of the text in the order of bytes.                                *)
Identifier == [kind : {"numeral", "signed", "word"}, value : Int, text : Nat]

(* What validVersion accepts.                                              *)
Version == [core : [1 .. 3 -> Nat], pre : Seq(Identifier), build : Seq(Identifier)]

(* strconv.Atoi succeeds: an integer that fits.  What it returns with its  *)
(* error for a large numeral is the largest number.                        *)
IsNumber(id) == id.kind # "word" /\ id.value \in -MaxInt - 1 .. MaxInt

Atoi(n) == IF n > MaxInt THEN MaxInt ELSE n

(* The order of strings in Go.                                             *)
TextBefore(a, b) == a.text < b.text

compareIdentifiers(a, b) ==
    CASE IsNumber(a) /\ IsNumber(b) -> IF a.value < b.value THEN -1 ELSE 1
      [] IsNumber(a) /\ ~IsNumber(b) -> -1
      [] ~IsNumber(a) /\ IsNumber(b) -> 1
      [] OTHER -> IF TextBefore(a, b) THEN -1 ELSE 1

(* The places at which two sequences differ, within the shorter one.       *)
Differences(s, t) == {i \in DOMAIN s \cap DOMAIN t : s[i] # t[i]}

First(S) == CHOOSE i \in S : \A j \in S : i <= j

comparePrerelease(a, b) ==
    IF Differences(a, b) # {}
      THEN LET i == First(Differences(a, b)) IN compareIdentifiers(a[i], b[i])
      ELSE IF Len(a) < Len(b) THEN -1 ELSE IF Len(a) > Len(b) THEN 1 ELSE 0

compareCores(a, b) ==
    IF Differences(a, b) = {} THEN 0
    ELSE LET i == First(Differences(a, b)) IN IF a[i] < b[i] THEN -1 ELSE 1

compareReleases(coreA, preA, coreB, preB) ==
    IF compareCores(coreA, coreB) # 0 THEN compareCores(coreA, coreB)
    ELSE CASE preA = <<>> /\ preB = <<>> -> 0
           [] preA = <<>> /\ preB # <<>> -> 1
           [] preA # <<>> /\ preB = <<>> -> -1
           [] OTHER -> comparePrerelease(preA, preB)

-----------------------------------------------------------------------------
(* The updater *)

(* Faulty variant: the longer one of two pre-releases is the later one.    *)
compareLengths(a, b) ==
    IF a.core # b.core THEN compareCores(a.core, b.core)
    ELSE IF a.pre = b.pre THEN 0 ELSE IF Len(a.pre) < Len(b.pre) THEN -1 ELSE 1

(* BUILD is cut off, numbers are read with Atoi and its error is dropped.  *)
compareVersions(a, b) ==
    compareReleases([i \in 1 .. 3 |-> Atoi(a.core[i])], a.pre,
                    [i \in 1 .. 3 |-> Atoi(b.core[i])], b.pre)

-----------------------------------------------------------------------------
(* The server *)

(* A number that does not fit is refused here.                             *)
parseSemanticVersion(v) == \A i \in 1 .. 3 : v.core[i] <= MaxInt

(* Equal pre-releases are told at the start; where one is the beginning of *)
(* the other, the shorter one is before.                                   *)
compareSemanticVersions(a, b) ==
    IF compareCores(a.core, b.core) # 0 THEN compareCores(a.core, b.core)
    ELSE IF a.pre = b.pre THEN 0
    ELSE IF a.pre = <<>> THEN 1
    ELSE IF b.pre = <<>> THEN -1
    ELSE IF Differences(a.pre, b.pre) # {}
      THEN LET i == First(Differences(a.pre, b.pre)) IN compareIdentifiers(a.pre[i], b.pre[i])
    ELSE IF Len(a.pre) < Len(b.pre) THEN -1 ELSE 1

updateState(client, server) ==
    IF ~parseSemanticVersion(client) \/ ~parseSemanticVersion(server) THEN "Unknown"
    ELSE LET order == compareSemanticVersions(client, server)
         IN  IF order = -1 THEN "Update available"
             ELSE IF order = 1 THEN "Client newer" ELSE "Current"

-----------------------------------------------------------------------------
(* The precedence of semver.org, the reference: numerals are compared as   *)
(* unbounded numbers and are before all words, words are compared as text, *)
(* a release is after its pre-releases, and a longer pre-release is after  *)
(* its own beginning.                                                      *)
IdentifierPrecedes(a, b) ==
    CASE a.kind = "numeral" /\ b.kind = "numeral" -> a.value < b.value
      [] a.kind # "numeral" /\ b.kind # "numeral" -> a.text < b.text
      [] OTHER -> a.kind = "numeral"

SamePrefix(s, t, n) == \A i \in 1 .. n - 1 : s[i] = t[i]

Precedes(a, b) ==
    \/ \E i \in 1 .. 3 : SamePrefix(a.core, b.core, i) /\ a.core[i] < b.core[i]
    \/ /\ a.core = b.core /\ a.pre # <<>>
       /\ \/ b.pre = <<>>
          \/ Len(a.pre) < Len(b.pre) /\ SamePrefix(a.pre, b.pre, Len(a.pre) + 1)
          \/ \E i \in DOMAIN a.pre \cap DOMAIN b.pre :
                 SamePrefix(a.pre, b.pre, i) /\ IdentifierPrecedes(a.pre[i], b.pre[i])

(* Versions that Go reads as semver.org does: no number is beyond an int   *)
(* and no word of the pre-release is a number to Atoi.                     *)
Plain(v) ==
    /\ parseSemanticVersion(v)
    /\ \A i \in DOMAIN v.pre : IsNumber(v.pre[i]) <=> v.pre[i].kind = "numeral"
=============================================================================
