------------------------ MODULE UpdatePackageProofs -------------------------
(***************************************************************************)
(* The properties of UpdatePackage for any components, versions, packages  *)
(* and stage directories.                                                  *)
(*                                                                         *)
(* The first part is about versions: the two comparisons of                *)
(* SemanticVersions agree, and on plain versions they are the precedence   *)
(* of semver.org, a transitive one.  The second part is about the files    *)
(* that tell the worker what was installed, the third about the way of a   *)
(* package: PackageInv says what an updater that has verified a package    *)
(* may rely on until it installs, and what a worker never forgets.         *)
(***************************************************************************)
EXTENDS UpdatePackage, WellFoundedInduction, TLAPS

(* Leaves are proved by Zenon, unless they name their provers: SMT, and    *)
(* then Z3, where arithmetic or sequences matter; PTL for temporal steps.  *)
USE ZenonT(100)

LEMMA Least ==
    ASSUME NEW S \in SUBSET Nat, S # {}
    PROVE  \E x \in S : \A y \in S : x <= y
<1>1. PICK x \in S : \A y \in S : ~(<<y, x>> \in OpToRel(<, Nat))
  BY WFMin, NatLessThanWellFounded
<1>2. \A y \in S : ~(y < x)
  BY <1>1 DEF OpToRel
<1> QED BY SMT, Z3, <1>2

LEMMA FirstIsLeast ==
    ASSUME NEW S \in SUBSET Nat, S # {}
    PROVE  First(S) \in S /\ \A j \in S : First(S) <= j
  BY Least DEF First

-----------------------------------------------------------------------------
(* Versions *)

Core == [1 .. 3 -> Nat]

CoreBefore(a, b) == \E i \in 1 .. 3 : SamePrefix(a, b, i) /\ a[i] < b[i]

LEMMA CoresCompared ==
    ASSUME NEW a \in Core, NEW b \in Core
    PROVE  /\ compareCores(a, b) \in {-1, 0, 1}
           /\ compareCores(a, b) = 0 <=> a = b
           /\ compareCores(a, b) = -1 <=> CoreBefore(a, b)
<1> DEFINE D == Differences(a, b)
<1>1. D = {i \in 1 .. 3 : a[i] # b[i]} /\ \A i \in 1 .. 3 : a[i] \in Nat /\ b[i] \in Nat
  BY DEF Differences, Core
<1>2. CASE D = {}
  <2>1. \A i \in 1 .. 3 : a[i] = b[i]
    BY <1>1, <1>2
  <2>2. a = b
    BY SMT, Z3, <2>1 DEF Core
  <2>3. ~CoreBefore(a, b)
    BY SMT, Z3, <1>1, <2>1 DEF CoreBefore
  <2>4. compareCores(a, b) = 0
    BY <1>2 DEF compareCores
  <2> QED BY SMT, Z3, <2>2, <2>3, <2>4
<1>3. CASE D # {}
  <2> DEFINE i == First(D)
  <2>1. i \in D /\ \A j \in D : i <= j
    BY SMT, Z3, <1>1, <1>3, FirstIsLeast
  <2>2. compareCores(a, b) = IF a[i] < b[i] THEN -1 ELSE 1
    BY <1>3 DEF compareCores
  <2> HIDE DEF i
  <2>3. i \in 1 .. 3 /\ a[i] # b[i] /\ SamePrefix(a, b, i) /\ a # b
    BY SMT, Z3, <1>1, <2>1 DEF SamePrefix
  <2>4. ASSUME NEW j \in 1 .. 3, SamePrefix(a, b, j), a[j] < b[j] PROVE j = i
    <3>1. j \in D
      BY SMT, Z3, <1>1, <2>4
    <3>2. ~(i < j)
      BY SMT, Z3, <2>3, <2>4 DEF SamePrefix
    <3> QED BY SMT, Z3, <2>1, <2>3, <3>1, <3>2
  <2>5. CoreBefore(a, b) <=> a[i] < b[i]
    BY <2>3, <2>4 DEF CoreBefore
  <2> QED BY SMT, Z3, <2>2, <2>3, <2>5
<1> QED BY <1>2, <1>3

(* What Go reads as semver.org does.                                       *)
PlainIdentifier == {id \in Identifier : IsNumber(id) <=> id.kind = "numeral"}

LEMMA IdentifiersCompared ==
    ASSUME NEW a \in PlainIdentifier, NEW b \in PlainIdentifier
    PROVE  compareIdentifiers(a, b) = IF IdentifierPrecedes(a, b) THEN -1 ELSE 1
<1>1. (IsNumber(a) <=> a.kind = "numeral") /\ (IsNumber(b) <=> b.kind = "numeral")
  BY DEF PlainIdentifier
<1>2. CASE IsNumber(a) /\ IsNumber(b)
  BY <1>1, <1>2 DEF compareIdentifiers, IdentifierPrecedes
<1>3. CASE IsNumber(a) /\ ~IsNumber(b)
  <2>1. compareIdentifiers(a, b) = -1
    BY <1>3 DEF compareIdentifiers
  <2>2. IdentifierPrecedes(a, b)
    BY <1>1, <1>3 DEF IdentifierPrecedes
  <2> QED BY <2>1, <2>2
<1>4. CASE ~IsNumber(a) /\ IsNumber(b)
  <2>1. compareIdentifiers(a, b) = 1
    BY <1>4 DEF compareIdentifiers
  <2>2. ~IdentifierPrecedes(a, b)
    BY <1>1, <1>4 DEF IdentifierPrecedes
  <2> QED BY <2>1, <2>2
<1>5. CASE ~IsNumber(a) /\ ~IsNumber(b)
  BY <1>1, <1>5 DEF compareIdentifiers, TextBefore, IdentifierPrecedes
<1> QED BY <1>2, <1>3, <1>4, <1>5

LEMMA IdentifierVerdict ==
    ASSUME NEW a, NEW b
    PROVE  compareIdentifiers(a, b) \in {-1, 1}
<1>1. CASE IsNumber(a) /\ IsNumber(b)
  BY <1>1 DEF compareIdentifiers
<1>2. CASE IsNumber(a) /\ ~IsNumber(b)
  BY <1>2 DEF compareIdentifiers
<1>3. CASE ~IsNumber(a) /\ IsNumber(b)
  BY <1>3 DEF compareIdentifiers
<1>4. CASE ~IsNumber(a) /\ ~IsNumber(b)
  BY <1>4 DEF compareIdentifiers
<1> QED BY <1>1, <1>2, <1>3, <1>4

LEMMA IdentifierFields ==
    ASSUME NEW a \in Identifier
    PROVE  /\ a.kind \in {"numeral", "signed", "word"} /\ a.value \in Int /\ a.text \in Nat
           /\ ~(a.value < a.value) /\ ~(a.text < a.text)
<1>1. a.kind \in {"numeral", "signed", "word"} /\ a.value \in Int /\ a.text \in Nat
  BY DEF Identifier
<1> QED BY SMT, Z3, <1>1

LEMMA IdentifierIrreflexive ==
    ASSUME NEW a \in Identifier
    PROVE  ~IdentifierPrecedes(a, a)
<1>1. ~(a.value < a.value) /\ ~(a.text < a.text)
  BY IdentifierFields
<1>2. CASE a.kind = "numeral"
  BY <1>1, <1>2 DEF IdentifierPrecedes
<1>3. CASE a.kind # "numeral"
  BY <1>1, <1>3 DEF IdentifierPrecedes
<1> QED BY <1>2, <1>3

LEMMA IdentifierOrder ==
    ASSUME NEW a \in Identifier, NEW b \in Identifier, NEW c \in Identifier,
           IdentifierPrecedes(a, b), IdentifierPrecedes(b, c)
    PROVE  IdentifierPrecedes(a, c)
<1>1. /\ a.value \in Int /\ b.value \in Int /\ c.value \in Int
      /\ a.text \in Nat /\ b.text \in Nat /\ c.text \in Nat
  BY IdentifierFields
<1>2. /\ a.value < b.value /\ b.value < c.value => a.value < c.value
      /\ a.text < b.text /\ b.text < c.text => a.text < c.text
  BY SMT, Z3, <1>1
<1>3. CASE a.kind = "numeral"
  <2>1. CASE b.kind = "numeral" /\ c.kind = "numeral"
    BY <1>2, <1>3, <2>1 DEF IdentifierPrecedes
  <2>2. CASE c.kind # "numeral"
    BY <1>3, <2>2 DEF IdentifierPrecedes
  <2>3. CASE b.kind # "numeral" /\ c.kind = "numeral"
    BY <2>3 DEF IdentifierPrecedes
  <2> QED BY <2>1, <2>2, <2>3
<1>4. CASE a.kind # "numeral"
  <2>1. b.kind # "numeral" /\ a.text < b.text
    BY <1>4 DEF IdentifierPrecedes
  <2>2. c.kind # "numeral" /\ b.text < c.text
    BY <2>1 DEF IdentifierPrecedes
  <2> QED BY <1>2, <1>4, <2>1, <2>2 DEF IdentifierPrecedes
<1> QED BY <1>3, <1>4

PreBefore(a, b) ==
    \/ Len(a) < Len(b) /\ SamePrefix(a, b, Len(a) + 1)
    \/ \E i \in DOMAIN a \cap DOMAIN b :
           SamePrefix(a, b, i) /\ IdentifierPrecedes(a[i], b[i])

LEMMA PrereleasesCompared ==
    ASSUME NEW a \in Seq(PlainIdentifier), NEW b \in Seq(PlainIdentifier)
    PROVE  /\ comparePrerelease(a, b) \in {-1, 0, 1}
           /\ comparePrerelease(a, b) = 0 <=> a = b
           /\ comparePrerelease(a, b) = -1 <=> PreBefore(a, b)
<1> DEFINE D == Differences(a, b)
           both == DOMAIN a \cap DOMAIN b
<1>1. /\ D = {i \in both : a[i] # b[i]} /\ both \subseteq Nat \ {0}
      /\ \A i \in both : a[i] \in PlainIdentifier /\ b[i] \in PlainIdentifier
      /\ \A i \in both : \A j \in Nat \ {0} : j < i => j \in both
      /\ Len(a) \in Nat /\ Len(b) \in Nat /\ DOMAIN a = 1 .. Len(a) /\ DOMAIN b = 1 .. Len(b)
  BY SMT, Z3 DEF Differences
<1>2. \A i \in both : IdentifierPrecedes(a[i], b[i]) => a[i] # b[i]
  BY <1>1, IdentifierIrreflexive DEF PlainIdentifier
<1>3. CASE D = {}
  <2>1. \A i \in both : a[i] = b[i]
    BY <1>1, <1>3
  <2>2. comparePrerelease(a, b) = IF Len(a) < Len(b) THEN -1 ELSE IF Len(a) > Len(b) THEN 1 ELSE 0
    BY <1>3 DEF comparePrerelease
  <2>3. ~\E i \in both : SamePrefix(a, b, i) /\ IdentifierPrecedes(a[i], b[i])
    BY <1>2, <2>1
  <2>4. Len(a) < Len(b) => SamePrefix(a, b, Len(a) + 1)
    BY SMT, Z3, <1>1, <2>1 DEF SamePrefix
  <2>5. Len(a) = Len(b) => a = b
    BY SMT, Z3, <1>1, <2>1
  <2>6. PreBefore(a, b) <=> Len(a) < Len(b)
    BY <2>3, <2>4 DEF PreBefore
  <2>7. a = b => Len(a) = Len(b)
    OBVIOUS
  <2>8. Len(a) \in Nat /\ Len(b) \in Nat
    BY <1>1
  <2>9. CASE Len(a) < Len(b)
    <3>1. comparePrerelease(a, b) = -1 /\ Len(a) # Len(b)
      BY SMT, Z3, <2>2, <2>8, <2>9
    <3> QED BY SMT, Z3, <2>6, <2>7, <2>9, <3>1
  <2>10. CASE Len(a) > Len(b)
    <3>1. comparePrerelease(a, b) = 1 /\ Len(a) # Len(b) /\ ~(Len(a) < Len(b))
      BY SMT, Z3, <2>2, <2>8, <2>10
    <3> QED BY SMT, Z3, <2>6, <2>7, <3>1
  <2>11. CASE Len(a) = Len(b)
    <3>1. comparePrerelease(a, b) = 0 /\ ~(Len(a) < Len(b))
      BY SMT, Z3, <2>2, <2>8, <2>11
    <3> QED BY SMT, Z3, <2>5, <2>6, <2>11, <3>1
  <2> QED BY SMT, Z3, <2>8, <2>9, <2>10, <2>11
<1>4. CASE D # {}
  <2> DEFINE i == First(D)
  <2>1. i \in D /\ \A j \in D : i <= j
    <3>1. D \in SUBSET Nat
      BY <1>1
    <3> QED BY <1>4, <3>1, FirstIsLeast
  <2>2. comparePrerelease(a, b) = compareIdentifiers(a[i], b[i])
    BY <1>4 DEF comparePrerelease
  <2> HIDE DEF i, D
  <2>3. i \in both /\ a[i] # b[i] /\ a # b /\ SamePrefix(a, b, i)
    BY SMT, Z3, <1>1, <2>1 DEF SamePrefix
  <2>4. comparePrerelease(a, b) = IF IdentifierPrecedes(a[i], b[i]) THEN -1 ELSE 1
    BY <1>1, <2>2, <2>3, IdentifiersCompared
  <2>5. ~(Len(a) < Len(b) /\ SamePrefix(a, b, Len(a) + 1))
    BY SMT, Z3, <1>1, <2>3 DEF SamePrefix
  <2>6. ASSUME NEW j \in both, SamePrefix(a, b, j), IdentifierPrecedes(a[j], b[j]) PROVE j = i
    <3>1. j \in D
      BY <1>1, <1>2, <2>6
    <3>2. ~(i < j)
      BY SMT, Z3, <1>1, <2>3, <2>6 DEF SamePrefix
    <3> QED BY SMT, Z3, <1>1, <2>1, <2>3, <3>1, <3>2
  <2>7. PreBefore(a, b) <=> IdentifierPrecedes(a[i], b[i])
    BY <2>3, <2>5, <2>6 DEF PreBefore
  <2> QED BY SMT, Z3, <2>3, <2>4, <2>7
<1> QED BY <1>3, <1>4

LEMMA VersionParts ==
    ASSUME NEW v \in Version
    PROVE  v.core \in Core /\ v.pre \in Seq(Identifier)
  BY DEF Version, Core

(* Versions that both programs and semver.org read alike.                  *)
PlainVersions == {v \in Version : Plain(v)}

LEMMA PlainParts ==
    ASSUME NEW v \in PlainVersions
    PROVE  /\ v \in Version /\ parseSemanticVersion(v)
           /\ v.core \in Core /\ v.pre \in Seq(PlainIdentifier)
<1>1. v \in Version /\ Plain(v)
  BY DEF PlainVersions
<1>2. v.core \in Core /\ v.pre \in Seq(Identifier)
  BY <1>1, VersionParts
<1>3. \A i \in DOMAIN v.pre : IsNumber(v.pre[i]) <=> v.pre[i].kind = "numeral"
  BY <1>1 DEF Plain
<1>4. \A i \in DOMAIN v.pre : v.pre[i] \in Identifier
  BY SMT, Z3, <1>2
<1>5. \A i \in DOMAIN v.pre : v.pre[i] \in PlainIdentifier
  BY <1>3, <1>4 DEF PlainIdentifier
<1>6. v.pre \in Seq(PlainIdentifier)
  BY SMT, Z3, <1>2, <1>5
<1> QED BY <1>1, <1>2, <1>6 DEF Plain

(* compareReleases is the precedence of semver.org.                        *)
LEMMA ReleasesCompared ==
    ASSUME NEW v \in PlainVersions, NEW w \in PlainVersions
    PROVE  /\ compareReleases(v.core, v.pre, w.core, w.pre) \in {-1, 0, 1}
           /\ compareReleases(v.core, v.pre, w.core, w.pre) = -1 <=> Precedes(v, w)
           /\ compareReleases(v.core, v.pre, w.core, w.pre) = 0 <=>
                  v.core = w.core /\ v.pre = w.pre
<1> DEFINE r == compareReleases(v.core, v.pre, w.core, w.pre)
<1>1. /\ v.core \in Core /\ v.pre \in Seq(PlainIdentifier)
      /\ w.core \in Core /\ w.pre \in Seq(PlainIdentifier)
  BY PlainParts
<1>2. Precedes(v, w) <=>
          \/ CoreBefore(v.core, w.core)
          \/ /\ v.core = w.core /\ v.pre # <<>>
             /\ w.pre = <<>> \/ PreBefore(v.pre, w.pre)
  BY DEF Precedes, CoreBefore, PreBefore
<1>3. CASE compareCores(v.core, w.core) # 0
  <2>1. r = compareCores(v.core, w.core) /\ v.core # w.core
    BY <1>1, <1>3, CoresCompared DEF compareReleases
  <2>2. r \in {-1, 0, 1} /\ (r = -1 <=> Precedes(v, w))
    BY <1>1, <1>2, <2>1, CoresCompared
  <2> QED BY <1>3, <2>1, <2>2
<1>4. CASE compareCores(v.core, w.core) = 0
  <2>1. v.core = w.core /\ ~CoreBefore(v.core, w.core)
    BY SMT, Z3, <1>1, <1>4, CoresCompared
  <2>2. CASE v.pre = <<>> \/ w.pre = <<>>
    <3>1. r = IF v.pre = <<>> /\ w.pre = <<>> THEN 0 ELSE IF v.pre = <<>> THEN 1 ELSE -1
      BY <1>4, <2>2 DEF compareReleases
    <3>2. v.pre = <<>> /\ w.pre # <<>> => r = 1
      BY <3>1
    <3>3. v.pre # <<>> => r = -1 /\ w.pre = <<>>
      BY <2>2, <3>1
    <3>4. v.pre = <<>> /\ w.pre = <<>> => r = 0
      BY <3>1
    <3> QED BY SMT, Z3, <1>2, <2>1, <3>2, <3>3, <3>4
  <2>3. CASE v.pre # <<>> /\ w.pre # <<>>
    <3>1. r = comparePrerelease(v.pre, w.pre)
      BY <1>4, <2>3 DEF compareReleases
    <3> QED BY <1>1, <1>2, <2>1, <2>3, <3>1, PrereleasesCompared
  <2> QED BY <2>2, <2>3
<1> QED BY <1>3, <1>4

(* Where the numbers of MAJOR.MINOR.PATCH fit, Atoi reads what is written. *)
LEMMA VersionsCompared ==
    ASSUME NEW v \in Version, NEW w \in Version,
           parseSemanticVersion(v), parseSemanticVersion(w)
    PROVE  compareVersions(v, w) = compareReleases(v.core, v.pre, w.core, w.pre)
<1>1. ASSUME NEW u \in Version, parseSemanticVersion(u)
      PROVE  [i \in 1 .. 3 |-> Atoi(u.core[i])] = u.core
  <2>1. u.core \in Core /\ \A i \in 1 .. 3 : u.core[i] <= MaxInt
    BY <1>1, VersionParts DEF parseSemanticVersion
  <2>2. \A i \in 1 .. 3 : Atoi(u.core[i]) = u.core[i]
    BY SMT, Z3, <2>1, MaxIntIsNatural DEF Atoi, Core
  <2> QED BY <2>1, <2>2 DEF Core
<1> QED BY <1>1 DEF compareVersions

LEMMA DifferentPrereleases ==
    ASSUME NEW a \in Seq(Identifier), NEW b \in Seq(Identifier), a # b
    PROVE  /\ comparePrerelease(a, b) \in {-1, 1}
           /\ comparePrerelease(a, b) =
                  IF Differences(a, b) # {}
                    THEN compareIdentifiers(a[First(Differences(a, b))], b[First(Differences(a, b))])
                    ELSE IF Len(a) < Len(b) THEN -1 ELSE 1
<1>1. CASE Differences(a, b) # {}
  BY <1>1, IdentifierVerdict DEF comparePrerelease
<1>2. CASE Differences(a, b) = {}
  <2>1. \A i \in DOMAIN a \cap DOMAIN b : a[i] = b[i]
    BY <1>2 DEF Differences
  <2>2. /\ Len(a) \in Nat /\ Len(b) \in Nat
        /\ Len(a) = Len(b) => a = b
    BY SMT, Z3, <2>1
  <2>3. Len(a) < Len(b) \/ Len(a) > Len(b)
    BY SMT, Z3, <2>2
  <2>4. comparePrerelease(a, b) =
            IF Len(a) < Len(b) THEN -1 ELSE IF Len(a) > Len(b) THEN 1 ELSE 0
    BY <1>2 DEF comparePrerelease
  <2> QED BY <1>2, <2>3, <2>4
<1> QED BY <1>1, <1>2

(* The server and the updater compare alike.                               *)
LEMMA SameComparison ==
    ASSUME NEW v \in Version, NEW w \in Version
    PROVE  /\ compareSemanticVersions(v, w) = compareReleases(v.core, v.pre, w.core, w.pre)
           /\ compareSemanticVersions(v, w) \in {-1, 0, 1}
<1> DEFINE s == compareSemanticVersions(v, w)
           r == compareReleases(v.core, v.pre, w.core, w.pre)
<1>1. v.core \in Core /\ w.core \in Core /\ v.pre \in Seq(Identifier) /\ w.pre \in Seq(Identifier)
  BY VersionParts
<1>2. CASE compareCores(v.core, w.core) # 0
  <2>1. s = compareCores(v.core, w.core) /\ r = compareCores(v.core, w.core)
    BY <1>2 DEF compareSemanticVersions, compareReleases
  <2> QED BY <1>1, <2>1, CoresCompared
<1>3. CASE compareCores(v.core, w.core) = 0 /\ (v.pre = <<>> \/ w.pre = <<>>)
  <2>1. s = IF v.pre = w.pre THEN 0 ELSE IF v.pre = <<>> THEN 1 ELSE -1
    BY <1>3 DEF compareSemanticVersions
  <2>2. r = IF v.pre = <<>> /\ w.pre = <<>> THEN 0 ELSE IF v.pre = <<>> THEN 1 ELSE -1
    BY <1>3 DEF compareReleases
  <2>3. CASE v.pre = w.pre
    <3>1. v.pre = <<>> /\ w.pre = <<>>
      BY <1>3, <2>3
    <3> QED BY <2>1, <2>2, <3>1
  <2>4. CASE v.pre # w.pre
    <3>1. s = r /\ (s = 1 \/ s = -1)
      BY SMT, Z3, <2>1, <2>2, <2>4
    <3> QED BY <3>1
  <2> QED BY <2>3, <2>4
<1>4. CASE compareCores(v.core, w.core) = 0 /\ v.pre # <<>> /\ w.pre # <<>>
  <2>1. r = comparePrerelease(v.pre, w.pre)
    BY <1>4 DEF compareReleases
  <2>2. CASE v.pre = w.pre
    <3>1. Differences(v.pre, w.pre) = {} /\ ~(Len(v.pre) < Len(w.pre)) /\ ~(Len(v.pre) > Len(w.pre))
      BY SMT, Z3, <1>1, <2>2 DEF Differences
    <3>2. r = 0
      BY <2>1, <3>1 DEF comparePrerelease
    <3>3. s = 0
      BY <1>4, <2>2 DEF compareSemanticVersions
    <3> QED BY <3>2, <3>3
  <2>3. CASE v.pre # w.pre
    <3>1. s = IF Differences(v.pre, w.pre) # {}
                THEN compareIdentifiers(v.pre[First(Differences(v.pre, w.pre))],
                                        w.pre[First(Differences(v.pre, w.pre))])
                ELSE IF Len(v.pre) < Len(w.pre) THEN -1 ELSE 1
      BY <1>4, <2>3 DEF compareSemanticVersions
    <3> QED BY <1>1, <2>1, <2>3, <3>1, DifferentPrereleases
  <2> QED BY <2>2, <2>3
<1> QED BY <1>2, <1>3, <1>4

(* For any two versions, the client list of the server and the updater     *)
(* agree unless a number of MAJOR.MINOR.PATCH does not fit, and agree with *)
(* semver.org if both are plain.                                           *)
LEMMA VersionsAgree ==
    ASSUME NEW v \in Version, NEW w \in Version
    PROVE  AgreeOn(v, w)
<1> DEFINE r == compareReleases(v.core, v.pre, w.core, w.pre)
<1>1. CASE ~parseSemanticVersion(v) \/ ~parseSemanticVersion(w)
  <2>1. updateState(v, w) = "Unknown"
    BY <1>1 DEF updateState
  <2> QED BY <2>1 DEF AgreeOn
<1>2. CASE parseSemanticVersion(v) /\ parseSemanticVersion(w)
  <2>1. r \in {-1, 0, 1} /\ compareSemanticVersions(v, w) = r
    BY SameComparison
  <2>2. compareVersions(v, w) = r
    BY <1>2, VersionsCompared
  <2>3. updateState(v, w) = IF r = -1 THEN "Update available"
                            ELSE IF r = 1 THEN "Client newer" ELSE "Current"
    BY <1>2, <2>1 DEF updateState
  <2> HIDE DEF r
  <2>4. (r < 0 <=> r = -1) /\ (r > 0 <=> r = 1) /\ (r = 1 => r # -1)
    BY SMT, Z3, <2>1
  <2>5. /\ updateState(v, w) = "Update available" <=> r = -1
        /\ updateState(v, w) = "Client newer" <=> r = 1
    BY <2>3, <2>4
  <2>6. Plain(v) /\ Plain(w) => (r = -1 <=> Precedes(v, w))
    BY ReleasesCompared DEF PlainVersions, r
  <2>7. (r < 0) \in BOOLEAN /\ (r > 0) \in BOOLEAN /\ Precedes(v, w) \in BOOLEAN
    <3>1. (r < 0) \in BOOLEAN /\ (r > 0) \in BOOLEAN
      BY SMT, Z3, <2>1
    <3> QED BY <3>1 DEF Precedes
  <2> QED BY <2>2, <2>4, <2>5, <2>6, <2>7 DEF AgreeOn
<1> QED BY <1>1, <1>2

LEMMA CoreOrder ==
    ASSUME NEW a \in Core, NEW b \in Core, NEW c \in Core, CoreBefore(a, b), CoreBefore(b, c)
    PROVE  CoreBefore(a, c)
<1>1. \A i \in 1 .. 3 : a[i] \in Nat /\ b[i] \in Nat /\ c[i] \in Nat
  BY DEF Core
<1>2. PICK i \in 1 .. 3 : SamePrefix(a, b, i) /\ a[i] < b[i]
  BY DEF CoreBefore
<1>3. PICK j \in 1 .. 3 : SamePrefix(b, c, j) /\ b[j] < c[j]
  BY DEF CoreBefore
<1> DEFINE k == IF i < j THEN i ELSE j
<1>4. k \in 1 .. 3 /\ k <= i /\ k <= j /\ (k = i \/ k = j)
  BY SMT, Z3
<1> HIDE DEF k
<1>5. SamePrefix(a, c, k)
  BY SMT, Z3, <1>2, <1>3, <1>4 DEF SamePrefix
<1>6. a[k] < c[k]
  <2>1. a[k] <= b[k] /\ b[k] <= c[k] /\ (a[k] < b[k] \/ b[k] < c[k])
    BY SMT, Z3, <1>1, <1>2, <1>3, <1>4 DEF SamePrefix
  <2> QED BY SMT, Z3, <1>1, <1>4, <2>1
<1> QED BY <1>4, <1>5, <1>6 DEF CoreBefore

LEMMA PreOrder ==
    ASSUME NEW a \in Seq(Identifier), NEW b \in Seq(Identifier), NEW c \in Seq(Identifier),
           PreBefore(a, b), PreBefore(b, c)
    PROVE  PreBefore(a, c)
<1>1. /\ Len(a) \in Nat /\ Len(b) \in Nat /\ Len(c) \in Nat
      /\ DOMAIN a = 1 .. Len(a) /\ DOMAIN b = 1 .. Len(b) /\ DOMAIN c = 1 .. Len(c)
      /\ \A i \in DOMAIN a : a[i] \in Identifier
      /\ \A i \in DOMAIN b : b[i] \in Identifier
      /\ \A i \in DOMAIN c : c[i] \in Identifier
  BY SMT, Z3
<1>2. CASE Len(a) < Len(b) /\ SamePrefix(a, b, Len(a) + 1)
  <2>1. CASE Len(b) < Len(c) /\ SamePrefix(b, c, Len(b) + 1)
    <3>1. Len(a) < Len(c) /\ SamePrefix(a, c, Len(a) + 1)
      BY SMT, Z3, <1>1, <1>2, <2>1 DEF SamePrefix
    <3> QED BY <3>1 DEF PreBefore
  <2>2. ASSUME NEW j \in DOMAIN b \cap DOMAIN c, SamePrefix(b, c, j), IdentifierPrecedes(b[j], c[j])
        PROVE  PreBefore(a, c)
    <3>1. CASE j <= Len(a)
      <4>1. j \in DOMAIN a \cap DOMAIN c /\ SamePrefix(a, c, j) /\ a[j] = b[j]
        BY SMT, Z3, <1>1, <1>2, <2>2, <3>1 DEF SamePrefix
      <4> QED BY <2>2, <4>1 DEF PreBefore
    <3>2. CASE j > Len(a)
      <4>1. Len(a) < Len(c) /\ SamePrefix(a, c, Len(a) + 1)
        BY SMT, Z3, <1>1, <1>2, <2>2, <3>2 DEF SamePrefix
      <4> QED BY <4>1 DEF PreBefore
    <3> QED BY SMT, Z3, <1>1, <3>1, <3>2
  <2> QED BY <2>1, <2>2 DEF PreBefore
<1>3. ASSUME NEW i \in DOMAIN a \cap DOMAIN b, SamePrefix(a, b, i), IdentifierPrecedes(a[i], b[i])
      PROVE  PreBefore(a, c)
  <2>1. CASE Len(b) < Len(c) /\ SamePrefix(b, c, Len(b) + 1)
    <3>1. i \in DOMAIN a \cap DOMAIN c /\ SamePrefix(a, c, i) /\ c[i] = b[i]
      <4>1. i \in Nat /\ i < Len(b) + 1 /\ i \in DOMAIN c /\ i \in DOMAIN a
        BY SMT, Z3, <1>1, <1>3, <2>1
      <4>2. \A k \in 1 .. (i - 1) : a[k] = b[k]
        BY <1>3 DEF SamePrefix
      <4>3. \A k \in 1 .. Len(b) : b[k] = c[k]
        BY SMT, Z3, <1>1, <2>1 DEF SamePrefix
      <4>4. \A k \in 1 .. (i - 1) : k \in 1 .. Len(b)
        BY SMT, Z3, <1>1, <4>1
      <4>5. c[i] = b[i]
        BY <1>1, <1>3, <4>3
      <4> QED BY <4>1, <4>2, <4>3, <4>4, <4>5 DEF SamePrefix
    <3> QED BY <1>3, <3>1 DEF PreBefore
  <2>2. ASSUME NEW j \in DOMAIN b \cap DOMAIN c, SamePrefix(b, c, j), IdentifierPrecedes(b[j], c[j])
        PROVE  PreBefore(a, c)
    <3>1. CASE i < j
      <4>1. i \in DOMAIN a \cap DOMAIN c /\ SamePrefix(a, c, i) /\ c[i] = b[i]
        BY SMT, Z3, <1>1, <1>3, <2>2, <3>1 DEF SamePrefix
      <4> QED BY <1>3, <4>1 DEF PreBefore
    <3>2. CASE j < i
      <4>1. j \in DOMAIN a \cap DOMAIN c /\ SamePrefix(a, c, j) /\ a[j] = b[j]
        BY SMT, Z3, <1>1, <1>3, <2>2, <3>2 DEF SamePrefix
      <4> QED BY <2>2, <4>1 DEF PreBefore
    <3>3. CASE i = j
      <4>1. i \in DOMAIN a \cap DOMAIN c /\ SamePrefix(a, c, i)
        BY <1>1, <1>3, <2>2, <3>3 DEF SamePrefix
      <4>2. a[i] \in Identifier /\ b[i] \in Identifier /\ c[i] \in Identifier
        BY <1>1, <1>3, <4>1
      <4>3. IdentifierPrecedes(a[i], c[i])
        BY <1>3, <2>2, <3>3, <4>2, IdentifierOrder
      <4> QED BY <4>1, <4>3 DEF PreBefore
    <3> QED BY SMT, Z3, <1>1, <3>1, <3>2, <3>3
  <2> QED BY <2>1, <2>2 DEF PreBefore
<1> QED BY <1>2, <1>3 DEF PreBefore

LEMMA PrecedenceOrder ==
    ASSUME NEW u \in Version, NEW v \in Version, NEW w \in Version,
           Precedes(u, v) \/ (u.core = v.core /\ u.pre = v.pre), Precedes(v, w)
    PROVE  Precedes(u, w)
<1>1. ASSUME NEW a \in Version, NEW b \in Version
      PROVE  Precedes(a, b) <=>
                 \/ CoreBefore(a.core, b.core)
                 \/ /\ a.core = b.core /\ a.pre # <<>>
                    /\ b.pre = <<>> \/ PreBefore(a.pre, b.pre)
  BY DEF Precedes, CoreBefore, PreBefore
<1>2. /\ u.core \in Core /\ v.core \in Core /\ w.core \in Core
      /\ u.pre \in Seq(Identifier) /\ v.pre \in Seq(Identifier) /\ w.pre \in Seq(Identifier)
  BY VersionParts
<1>3. CASE u.core = v.core /\ u.pre = v.pre
  BY <1>1, <1>3
<1>4. CASE Precedes(u, v)
  <2>1. CASE CoreBefore(u.core, v.core)
    BY <1>1, <1>2, <2>1, CoreOrder
  <2>2. CASE /\ u.core = v.core /\ u.pre # <<>> /\ (v.pre = <<>> \/ PreBefore(u.pre, v.pre))
    <3>1. CASE CoreBefore(v.core, w.core)
      BY <1>1, <2>2, <3>1
    <3>2. CASE /\ v.core = w.core /\ v.pre # <<>> /\ (w.pre = <<>> \/ PreBefore(v.pre, w.pre))
      BY <1>1, <1>2, <2>2, <3>2, PreOrder
    <3> QED BY <1>1, <3>1, <3>2
  <2> QED BY <1>1, <1>4, <2>1, <2>2
<1> QED BY <1>3, <1>4

LEMMA PrecedenceIrreflexive ==
    ASSUME NEW v \in Version
    PROVE  ~Precedes(v, v)
<1>1. v.core \in Core /\ v.pre \in Seq(Identifier)
  BY VersionParts
<1>2. \A i \in 1 .. 3 : ~(v.core[i] < v.core[i])
  BY SMT, Z3, <1>1 DEF Core
<1>3. ~(Len(v.pre) < Len(v.pre))
  BY SMT, Z3, <1>1
<1>4. ASSUME NEW i \in DOMAIN v.pre PROVE ~IdentifierPrecedes(v.pre[i], v.pre[i])
  <2>1. v.pre[i] \in Identifier
    BY SMT, Z3, <1>1
  <2> QED BY <2>1, IdentifierIrreflexive
<1> QED BY <1>2, <1>3, <1>4 DEF Precedes

LEMMA PlainCompared ==
    ASSUME NEW v \in PlainVersions, NEW w \in PlainVersions
    PROVE  /\ compareVersions(v, w) \in {-1, 0, 1}
           /\ compareVersions(v, w) < 0 <=> Precedes(v, w)
           /\ compareVersions(v, w) = 0 <=> v.core = w.core /\ v.pre = w.pre
<1> DEFINE r == compareVersions(v, w)
<1>1. r = compareReleases(v.core, v.pre, w.core, w.pre)
  BY PlainParts, VersionsCompared
<1>2. /\ r \in {-1, 0, 1} /\ (r = -1 <=> Precedes(v, w))
      /\ r = 0 <=> v.core = w.core /\ v.pre = w.pre
  BY <1>1, ReleasesCompared
<1> HIDE DEF r
<1>3. r < 0 <=> r = -1
  BY SMT, Z3, <1>2
<1> QED BY <1>2, <1>3 DEF r

(* On plain versions (no number beyond an int, no hyphen before digits),   *)
(* compareVersions orders strictly and as semver.org does, and takes two   *)
(* for the same only if they differ in nothing but build metadata.  So a   *)
(* chain of accepted updates never leads back (validateManifest).          *)
THEOREM ComparisonIsAnOrder ==
    ASSUME NEW u \in PlainVersions, NEW v \in PlainVersions, NEW w \in PlainVersions
    PROVE  /\ compareVersions(v, w) < 0 <=> Precedes(v, w)
           /\ compareVersions(v, w) = 0 => v.core = w.core /\ v.pre = w.pre
           /\ ~(compareVersions(v, v) < 0)
           /\ compareVersions(u, v) < 0 /\ compareVersions(v, w) < 0 =>
                  compareVersions(u, w) < 0
<1>1. u \in Version /\ v \in Version /\ w \in Version
  BY PlainParts
<1>2. ~Precedes(v, v)
  BY <1>1, PrecedenceIrreflexive
<1>3. Precedes(u, v) /\ Precedes(v, w) => Precedes(u, w)
  BY <1>1, PrecedenceOrder
<1> QED BY <1>2, <1>3, PlainCompared

-----------------------------------------------------------------------------
(* The releases of a client *)

LEMMA KnownVersions == Versions \cup Releases \subseteq Version
  BY VersionsAssumption DEF Releases

(* v is w, but for build metadata, or before it.                           *)
NotAfter(v, w) == Precedes(v, w) \/ (v.core = w.core /\ v.pre = w.pre)

LEMMA ReleaseOrder ==
    ASSUME PlainReleases, NEW v \in Releases, NEW w \in Releases
    PROVE  /\ v \in Version /\ w \in Version
           /\ compareVersions(v, w) < 0 <=> Precedes(v, w)
           /\ compareVersions(v, w) > 0 => Precedes(w, v)
           /\ ~(compareVersions(v, w) > 0) => NotAfter(v, w)
           /\ ~(compareVersions(v, w) < 0) => NotAfter(w, v)
<1> DEFINE r == compareVersions(v, w)
<1>1. v \in PlainVersions /\ w \in PlainVersions
  BY KnownVersions DEF PlainReleases, PlainVersions
<1>2. /\ r \in {-1, 0, 1} /\ (r < 0 <=> Precedes(v, w))
      /\ r = 0 <=> v.core = w.core /\ v.pre = w.pre
  BY <1>1, PlainCompared
<1>3. Precedes(v, w) \/ Precedes(w, v) \/ (v.core = w.core /\ v.pre = w.pre)
  BY DEF PlainReleases
<1> HIDE DEF r
<1>4. /\ r > 0 => ~(r < 0) /\ r # 0
      /\ ~(r > 0) => r < 0 \/ r = 0
      /\ ~(r < 0) => r > 0 \/ r = 0
  BY SMT, Z3, <1>2
<1>5. v \in Version /\ w \in Version
  BY <1>1, PlainParts
<1> QED BY <1>2, <1>3, <1>4, <1>5 DEF NotAfter, r

LEMMA NotAfterItself ==
    ASSUME NEW v \in Releases
    PROVE  NotAfter(v, v) /\ ~Precedes(v, v)
<1>1. v \in Version
  BY KnownVersions
<1> QED BY <1>1, PrecedenceIrreflexive DEF NotAfter

LEMMA NotAfterPrecedes ==
    ASSUME NEW u \in Releases, NEW v \in Releases, NEW w \in Releases,
           NotAfter(u, v), Precedes(v, w)
    PROVE  Precedes(u, w)
<1>1. u \in Version /\ v \in Version /\ w \in Version
  BY KnownVersions
<1> QED BY <1>1, PrecedenceOrder DEF NotAfter

LEMMA NotAfterTransitive ==
    ASSUME NEW u \in Releases, NEW v \in Releases, NEW w \in Releases,
           NotAfter(u, v), NotAfter(v, w)
    PROVE  NotAfter(u, w)
<1>1. CASE Precedes(v, w)
  BY <1>1, NotAfterPrecedes DEF NotAfter
<1>2. CASE v.core = w.core /\ v.pre = w.pre
  <2>1. Precedes(u, v) => Precedes(u, w)
    BY <1>2 DEF Precedes
  <2> QED BY <1>2, <2>1 DEF NotAfter
<1> QED BY <1>1, <1>2 DEF NotAfter

Record == [status : {"success", "failed"}, release : Releases]

Floor == [saved : {TRUE}, version : Releases]

FileTypes ==
    /\ record \in {NoRecord} \cup Record /\ floor \in {NoFloor} \cup Floor
    /\ seen \in SUBSET Releases

(* What a file of the worker holds.                                        *)
Saves(f) == IF f.saved THEN {f.version} ELSE {}

LEMMA FileKinds ==
    /\ Saves(NoFloor) = {}
    /\ \A f \in Floor : f # NoFloor /\ f.saved /\ f.version \in Releases
    /\ \A v \in Releases : [saved |-> TRUE, version |-> v] \in Floor
    /\ FileTypes => Recorded \subseteq Releases /\ Saves(floor) \subseteq Releases
<1>1. NoFloor.saved = FALSE /\ NoRecord.status = "none"
  BY DEF NoFloor, NoRecord
<1>2. \A f \in Floor : f.saved /\ f.version \in Releases
  BY DEF Floor
<1>3. \A r \in Record : r.release \in Releases
  BY DEF Record
<1>4. \A v \in Releases : [saved |-> TRUE, version |-> v] \in Floor
  BY DEF Floor
<1>5. ASSUME FileTypes PROVE Recorded \subseteq Releases /\ Saves(floor) \subseteq Releases
  <2>1. record = NoRecord \/ record \in Record
    BY <1>5 DEF FileTypes
  <2>2. floor = NoFloor \/ floor \in Floor
    BY <1>5 DEF FileTypes
  <2>3. Recorded \subseteq Releases
    BY <1>1, <1>3, <2>1 DEF Recorded
  <2> QED BY <1>1, <1>2, <2>2, <2>3 DEF Saves
<1> QED BY <1>1, <1>2, <1>4, <1>5 DEF Saves

LEMMA NewerIsLater ==
    ASSUME PlainReleases, NEW v \in Releases, NEW w \in Releases
    PROVE  NotAfter(v, Newer(v, w)) /\ NotAfter(w, Newer(v, w))
<1>1. CASE compareVersions(w, v) > 0
  <2>1. Newer(v, w) = w /\ Precedes(v, w)
    BY <1>1, ReleaseOrder DEF Newer
  <2> QED BY <2>1, NotAfterItself DEF NotAfter
<1>2. CASE ~(compareVersions(w, v) > 0)
  <2>1. Newer(v, w) = v /\ NotAfter(w, v)
    BY <1>2, ReleaseOrder DEF Newer
  <2> QED BY <2>1, NotAfterItself
<1> QED BY <1>1, <1>2

(* What a worker compares a package with is one of the versions it knows,  *)
(* and none of them is later.                                              *)
LEMMA WorkerKnows ==
    ASSUME FileTypes, NEW own \in Releases
    PROVE  /\ SavedVersion(own) \in {own} \cup Saves(floor)
           /\ workerInstalledVersion(own) \in {own} \cup Saves(floor) \cup Recorded
           /\ PlainReleases =>
                  /\ \A v \in {own} \cup Saves(floor) : NotAfter(v, SavedVersion(own))
                  /\ \A v \in {own} \cup Saves(floor) \cup Recorded :
                         NotAfter(v, workerInstalledVersion(own))
<1> DEFINE saved == SavedVersion(own)
           known == workerInstalledVersion(own)
<1>0. Recorded \subseteq Releases /\ Saves(floor) \subseteq Releases
  BY FileKinds
<1>1. \A v, w : Newer(v, w) \in {v, w}
  BY DEF Newer
<1>2. saved = IF floor.saved THEN Newer(own, floor.version) ELSE own
  BY DEF SavedVersion
<1>3. known = IF record.status = "success" THEN Newer(saved, record.release) ELSE saved
  BY DEF workerInstalledVersion
<1>4. saved \in {own} \cup Saves(floor)
  BY <1>1, <1>2 DEF Saves
<1>5. known \in {own} \cup Saves(floor) \cup Recorded
  BY <1>1, <1>3, <1>4 DEF Recorded
<1>6. saved \in Releases /\ known \in Releases
  BY <1>0, <1>4, <1>5
<1> HIDE DEF saved, known
<1>7. ASSUME PlainReleases
      PROVE  /\ \A v \in {own} \cup Saves(floor) : NotAfter(v, saved)
             /\ \A v \in {own} \cup Saves(floor) \cup Recorded : NotAfter(v, known)
  <2>1. \A v \in {own} \cup Saves(floor) : NotAfter(v, saved)
    <3>1. CASE floor.saved
      <4>1. Saves(floor) = {floor.version} /\ floor.version \in Releases
        BY <1>0, <3>1 DEF Saves
      <4>2. saved = Newer(own, floor.version)
        BY <1>2, <3>1
      <4> QED BY <1>7, <4>1, <4>2, NewerIsLater
    <3>2. CASE ~floor.saved
      <4>1. Saves(floor) = {} /\ saved = own
        BY <1>2, <3>2 DEF Saves
      <4> QED BY <4>1, NotAfterItself
    <3> QED BY <3>1, <3>2
  <2>2. NotAfter(saved, known) /\ \A v \in Recorded : NotAfter(v, known)
    <3>1. CASE record.status = "success"
      <4>1. Recorded = {record.release} /\ record.release \in Releases
        BY <1>0, <3>1 DEF Recorded
      <4>2. known = Newer(saved, record.release)
        BY <1>3, <3>1
      <4> QED BY <1>6, <1>7, <4>1, <4>2, NewerIsLater
    <3>2. CASE record.status # "success"
      <4>1. Recorded = {} /\ known = saved
        BY <1>3, <3>2 DEF Recorded
      <4> QED BY <1>6, <4>1, NotAfterItself
    <3> QED BY <3>1, <3>2
  <2>3. ASSUME NEW v \in {own} \cup Saves(floor) PROVE NotAfter(v, known)
    <3>1. v \in Releases /\ NotAfter(v, saved)
      BY <1>0, <2>1
    <3> QED BY <1>6, <2>2, <3>1, NotAfterTransitive
  <2> QED BY <2>1, <2>2, <2>3
<1> QED BY <1>4, <1>5, <1>7 DEF saved, known

(* No knowledge is lost when a recorded success is saved.                  *)
LEMMA FloorKnows ==
    ASSUME FileTypes, NEW own \in Releases
    PROVE  /\ KnownFloor(own) \in {NoFloor} \cup Floor
           /\ Saves(KnownFloor(own)) \subseteq Saves(floor) \cup Recorded
           /\ PlainReleases =>
                  \A v \in Saves(floor) \cup Recorded :
                      \E h \in {own} \cup Saves(KnownFloor(own)) : NotAfter(v, h)
<1> DEFINE f == KnownFloor(own)
           saved == SavedVersion(own)
<1>0. Recorded \subseteq Releases /\ Saves(floor) \subseteq Releases
  BY FileKinds
<1>1. /\ saved \in {own} \cup Saves(floor)
      /\ PlainReleases => \A v \in {own} \cup Saves(floor) : NotAfter(v, saved)
  BY WorkerKnows
<1>2. saved \in Releases
  BY <1>0, <1>1
<1> HIDE DEF saved
<1>3. CASE \E v \in Recorded : compareVersions(v, saved) > 0
  <2> DEFINE g == [saved |-> TRUE, version |-> record.release]
  <2>1. Recorded = {record.release} /\ record.release \in Releases
    BY <1>0, <1>3 DEF Recorded
  <2>2. f = g /\ compareVersions(record.release, saved) > 0
    BY <1>3, <2>1 DEF KnownFloor, saved
  <2>3. g.saved = TRUE /\ g.version = record.release /\ g \in Floor
    BY <2>1, FileKinds
  <2> HIDE DEF g
  <2>4. f \in Floor /\ Saves(f) = {record.release}
    BY <2>2, <2>3 DEF Saves
  <2>5. ASSUME PlainReleases, NEW v \in Saves(floor) PROVE NotAfter(v, record.release)
    <3>1. Precedes(saved, record.release)
      BY <1>2, <2>1, <2>2, <2>5, ReleaseOrder
    <3>2. v \in Releases /\ NotAfter(v, saved)
      BY <1>0, <1>1, <2>5
    <3>3. Precedes(v, record.release)
      BY <1>2, <2>1, <3>1, <3>2, NotAfterPrecedes
    <3> QED BY <3>3 DEF NotAfter
  <2>6. NotAfter(record.release, record.release)
    BY <2>1, NotAfterItself
  <2> QED BY <2>1, <2>4, <2>5, <2>6
<1>4. CASE ~\E v \in Recorded : compareVersions(v, saved) > 0
  <2>1. f = floor
    BY <1>4 DEF KnownFloor, saved
  <2>2. f \in {NoFloor} \cup Floor
    BY <2>1 DEF FileTypes
  <2>3. ASSUME NEW v \in Saves(floor) PROVE NotAfter(v, v)
    BY <1>0, <2>3, NotAfterItself
  <2>4. ASSUME PlainReleases, NEW v \in Recorded PROVE NotAfter(v, saved)
    BY <1>0, <1>2, <1>4, <2>4, ReleaseOrder
  <2> QED BY <1>1, <2>1, <2>2, <2>3, <2>4
<1> QED BY <1>3, <1>4

(* Whoever finishes a run of the worker keeps what was known, and its      *)
(* release: the process that installed it has an older version.            *)
LEMMA FinishKnows ==
    ASSUME FileTypes, PlainReleases, binary \in Releases,
           NEW own \in Releases, NEW release \in Releases, NEW f,
           own = binary \/ Precedes(own, release),
           f = IF compareVersions(release, workerInstalledVersion(own)) > 0
                 THEN [saved |-> TRUE, version |-> release] ELSE KnownFloor(own)
    PROVE  \A v \in Saves(floor) \cup Recorded \cup {release} :
               \E h \in {binary} \cup Saves(f) : NotAfter(v, h)
<1> DEFINE known == workerInstalledVersion(own)
<1>0. Recorded \subseteq Releases /\ Saves(floor) \subseteq Releases
  BY FileKinds
<1>1. /\ known \in {own} \cup Saves(floor) \cup Recorded
      /\ \A v \in {own} \cup Saves(floor) \cup Recorded : NotAfter(v, known)
  BY WorkerKnows
<1>2. known \in Releases
  BY <1>0, <1>1
<1>3. CASE compareVersions(release, known) > 0
  <2> DEFINE g == [saved |-> TRUE, version |-> release]
  <2>1. f = g /\ g.saved = TRUE /\ g.version = release
    BY <1>3
  <2> HIDE DEF g, known
  <2>2. release \in Saves(f)
    BY <2>1 DEF Saves
  <2>3. Precedes(known, release)
    BY <1>2, <1>3, ReleaseOrder
  <2>4. ASSUME NEW v \in Saves(floor) \cup Recorded PROVE NotAfter(v, release)
    <3>1. v \in Releases /\ NotAfter(v, known)
      BY <1>0, <1>1, <2>4
    <3>2. Precedes(v, release)
      BY <1>2, <2>3, <3>1, NotAfterPrecedes
    <3> QED BY <3>2 DEF NotAfter
  <2>5. NotAfter(release, release)
    BY NotAfterItself
  <2> QED BY <2>2, <2>4, <2>5
<1>4. CASE ~(compareVersions(release, known) > 0)
  <2>1. f = KnownFloor(own)
    BY <1>4
  <2>2. /\ \A v \in Saves(floor) \cup Recorded : \E h \in {own} \cup Saves(f) : NotAfter(v, h)
        /\ Saves(f) \subseteq Releases
    BY <1>0, <2>1, FloorKnows
  <2> HIDE DEF known
  <2>3. NotAfter(release, known)
    BY <1>2, <1>4, ReleaseOrder
  <2>4. CASE own = binary
    <3>1. PICK h \in {binary} \cup Saves(f) : NotAfter(known, h)
      <4>1. NotAfter(own, own)
        BY NotAfterItself
      <4> QED BY <1>1, <2>2, <2>4, <4>1
    <3>2. h \in Releases
      BY <2>2
    <3>3. NotAfter(release, h)
      BY <1>2, <2>3, <3>1, <3>2, NotAfterTransitive
    <3> QED BY <2>2, <2>4, <3>3
  <2>5. CASE Precedes(own, release)
    <3>1. ASSUME NEW h \in {own} \cup Saves(f), NotAfter(known, h) PROVE h \in Saves(f)
      <4>1. SUFFICES ASSUME h = own PROVE FALSE
        OBVIOUS
      <4>2. NotAfter(release, own)
        BY <1>2, <2>3, <3>1, <4>1, NotAfterTransitive
      <4>3. Precedes(release, release)
        BY <2>5, <4>2, NotAfterPrecedes
      <4> QED BY <4>3, NotAfterItself
    <3>2. known \in Saves(floor) \cup Recorded
      <4>1. known # own
        <5>1. SUFFICES ASSUME known = own PROVE FALSE
          OBVIOUS
        <5>2. Precedes(release, release)
          BY <2>3, <2>5, <5>1, NotAfterPrecedes
        <5> QED BY <5>2, NotAfterItself
      <4> QED BY <1>1, <4>1
    <3>3. PICK h \in Saves(f) : NotAfter(known, h)
      BY <2>2, <3>1, <3>2
    <3>4. h \in Releases
      BY <2>2
    <3>5. NotAfter(release, h)
      BY <1>2, <2>3, <3>3, <3>4, NotAfterTransitive
    <3>6. NotAfter(own, h)
      <4>1. NotAfter(own, release)
        BY <2>5 DEF NotAfter
      <4> QED BY <3>4, <3>5, <4>1, NotAfterTransitive
    <3>7. ASSUME NEW v \in Saves(floor) \cup Recorded
          PROVE  \E g \in {binary} \cup Saves(f) : NotAfter(v, g)
      <4>1. PICK g \in {own} \cup Saves(f) : NotAfter(v, g)
        BY <2>2
      <4>2. v \in Releases
        BY <1>0
      <4>3. g = own => NotAfter(v, h)
        BY <3>4, <3>6, <4>1, <4>2, NotAfterTransitive
      <4> QED BY <4>1, <4>3
    <3> QED BY <3>5, <3>7
  <2> QED BY <2>4, <2>5
<1> QED BY <1>3, <1>4

-----------------------------------------------------------------------------
(* The way of a package *)

Pair == Components \X Nat

Manifest == [release : Releases, minimum : {o.minimum : o \in PackageOptions},
             channel : {o.channel : o \in PackageOptions},
             architecture : {o.architecture : o \in PackageOptions}, files : SUBSET Pair]

Package == [key : {o.key : o \in PackageOptions}, entries : SUBSET Pair, manifest : Manifest]

PackagerRun == [pc : {"hash", "copy"}, options : PackageOptions, files : SUBSET Pair,
                entries : SUBSET Pair]

UpdaterRun == [pc : {"stage", "install", "finish"}, dir : Dirs, manifest : Manifest,
               own : Releases]

TmpStage == [state : {"tmp"}, files : SUBSET Pair]

FullStage == [state : {"staged"}, files : SUBSET Pair, release : Releases]

PackageTypes ==
    /\ source \in [Components -> Nat]
    /\ packager \in {NoPackager} \cup PackagerRun
    /\ packages \in SUBSET Package
    /\ updater \in [Updaters -> {NoUpdater} \cup UpdaterRun]
    /\ stage \in [Dirs -> {NoStage} \cup TmpStage \cup FullStage]
    /\ installed \in Releases /\ binary \in Releases
    /\ target \in [Components -> Nat]
    /\ FileTypes

(* The package on the client was made by the packager, but for its entries.*)
FileInv ==
    file # NoPackage =>
        \E p \in packages : file.key = p.key /\ file.manifest = p.manifest

Released(m) == \E p \in packages : p.key = ReleaseKey /\ p.manifest = m

(* The updater has a stage directory.                                      *)
Staging(r) == r.pc \in {"stage", "install"}

(* What an updater has verified, and what is in its stage directory d.     *)
UpdaterOK(r, d) ==
    /\ Released(r.manifest)
    /\ Staging(r) => d # NoStage /\ d.files \subseteq r.manifest.files
    /\ r.pc = "install" =>
           /\ d \in FullStage /\ d.release = r.manifest.release
           /\ Named(d.files) = Named(r.manifest.files)

UpdaterInv ==
    /\ \A u \in Updaters : updater[u] # NoUpdater => UpdaterOK(updater[u], stage[updater[u].dir])
    /\ \A u, v \in Updaters :
           u # v /\ Staging(updater[u]) /\ Staging(updater[v]) => updater[u].dir # updater[v].dir

(* The worker holds the update lock until it has installed: what it        *)
(* compared with is still there.                                           *)
WorkerInv ==
    LET w == updater["worker"]
    IN  w # NoUpdater /\ PlainReleases =>
            /\ Precedes(w.own, w.manifest.release)
            /\ Staging(w) =>
                   \A v \in {binary} \cup Saves(floor) \cup Recorded :
                       Precedes(v, w.manifest.release)

(* What holds a worker back: its own version, the file that it saved, or   *)
(* the journal of the run that is to be finished.                          *)
Held ==
    {binary} \cup Saves(floor) \cup
        (IF updater["worker"].pc = "finish" THEN {updater["worker"].manifest.release} ELSE {})

(* Nothing that a worker has seen is forgotten.                            *)
FloorInv == PlainReleases => \A v \in seen : \E h \in Held : NotAfter(v, h)

PackageInv == PackageTypes /\ FileInv /\ UpdaterInv /\ WorkerInv /\ FloorInv

LEMMA RunKinds ==
    /\ \A r \in {NoUpdater} \cup UpdaterRun :
           /\ r = NoUpdater <=> r.pc = "idle"
           /\ r # NoUpdater => /\ r \in UpdaterRun /\ r.dir \in Dirs /\ r.manifest \in Manifest
                            /\ r.own \in Releases /\ r.pc \in {"stage", "install", "finish"}
    /\ \A r \in {NoPackager} \cup PackagerRun :
           /\ r = NoPackager <=> r.pc = "idle"
           /\ r # NoPackager => r \in PackagerRun
<1>1. NoUpdater.pc = "idle" /\ NoPackager.pc = "idle"
  BY DEF NoUpdater, NoPackager
<1>2. \A r \in UpdaterRun : /\ r.pc # "idle" /\ r.dir \in Dirs /\ r.manifest \in Manifest
                            /\ r.own \in Releases /\ r.pc \in {"stage", "install", "finish"}
  BY DEF UpdaterRun
<1>3. \A r \in PackagerRun : r.pc # "idle"
  BY DEF PackagerRun
<1> QED BY <1>1, <1>2, <1>3

LEMMA StageKinds ==
    /\ \A d \in TmpStage \cup FullStage : d # NoStage /\ d.files \in SUBSET Pair
    /\ \A d \in FullStage : d.release \in Releases
<1>1. NoStage.state = "absent"
  BY DEF NoStage
<1>2. \A d \in TmpStage : d.state = "tmp" /\ d.files \in SUBSET Pair
  BY DEF TmpStage
<1>3. \A d \in FullStage : d.state = "staged" /\ d.files \in SUBSET Pair /\ d.release \in Releases
  BY DEF FullStage
<1> QED BY <1>1, <1>2, <1>3

(* An updater and its directory that a step leaves alone.                  *)
LEMMA UpdaterKept ==
    ASSUME PackageInv, packages \subseteq packages', NEW u \in Updaters,
           updater[u] # NoUpdater, updater'[u] = updater[u],
           Staging(updater[u]) => stage'[updater[u].dir] = stage[updater[u].dir]
    PROVE  UpdaterOK(updater[u], stage[updater[u].dir])'
<1> DEFINE r == updater[u]
           d == stage[updater[u].dir]
<1>1. UpdaterOK(r, d)
  BY DEF PackageInv, UpdaterInv
<1>2. updater'[u] = r /\ (Staging(r) => stage'[updater'[u].dir] = d)
  OBVIOUS
<1>3. /\ Released(r.manifest)
      /\ Staging(r) => d # NoStage /\ d.files \subseteq r.manifest.files
      /\ (r.pc = "install" =>
           /\ d \in FullStage /\ d.release = r.manifest.release
           /\ Named(d.files) = Named(r.manifest.files))
      /\ r.pc = "install" => Staging(r)
  BY <1>1 DEF UpdaterOK, Staging
<1>4. \E p \in packages' : p.key = ReleaseKey /\ p.manifest = updater'[u].manifest
  BY <1>2, <1>3 DEF Released
<1> QED BY <1>2, <1>3, <1>4 DEF UpdaterOK, Released, Staging

(* A step that leaves the client alone and withdraws no package.           *)
LEMMA ClientUntouched ==
    ASSUME PackageInv, UNCHANGED clientVars, packages \subseteq packages'
    PROVE  UpdaterInv' /\ WorkerInv' /\ FloorInv' /\ UNCHANGED clientVars
<1>1. UNCHANGED <<updater, stage, installed, binary, target, record, floor, seen>>
  BY DEF clientVars
<1>2. \A u \in Updaters : updater'[u] # NoUpdater => UpdaterOK(updater[u], stage[updater[u].dir])'
  BY <1>1, UpdaterKept
<1>3. UpdaterInv'
  BY <1>1, <1>2 DEF PackageInv, UpdaterInv, Staging
<1>4. WorkerInv'
  BY <1>1 DEF PackageInv, WorkerInv, Staging, Recorded
<1>5. FloorInv'
  BY <1>1 DEF PackageInv, FloorInv, Held
<1> QED BY <1>3, <1>4, <1>5

LEMMA PackagerSteps ==
    ASSUME PackageInv, (\E c \in Components : Build(c)) \/ Packager
    PROVE  PackageInv'
<1>0. PackageTypes
  BY DEF PackageInv
<1>1. UNCHANGED clientVars /\ file' = file
  BY DEF Build, Packager, StartPackager, hashFile, CopyComponent, CreateSignedPackage,
     PackagerFails
<1>2. ASSUME NEW c \in Components, Build(c)
      PROVE  /\ source' \in [Components -> Nat] /\ packager' = packager /\ packages' = packages
  BY SMT, Z3, <1>0, <1>2 DEF Build, PackageTypes
<1>3. ASSUME NEW o \in PackageOptions, StartPackager(o)
      PROVE  packager' \in PackagerRun /\ source' = source /\ packages' = packages
  BY <1>3 DEF StartPackager, PackagerRun
<1>4. ASSUME NEW c \in Components, hashFile(c) \/ CopyComponent(c)
      PROVE  packager' \in PackagerRun /\ source' = source /\ packages' = packages
  <2>1. packager \in PackagerRun
    BY <1>0, <1>4, RunKinds DEF hashFile, CopyComponent, PackageTypes
  <2>2. <<c, source[c]>> \in Pair
    BY <1>0 DEF Pair, PackageTypes
  <2> DEFINE pair == <<c, source[c]>>
  <2> HIDE DEF pair
  <2>3. pair \in Pair
    BY <2>2 DEF pair
  <2>4. CASE hashFile(c)
    <3> DEFINE files == packager.files \cup {pair}
               pc == IF Named(files) = packager.options.components THEN "copy" ELSE "hash"
    <3>1. packager' = [packager EXCEPT !.files = files, !.pc = pc]
      BY <2>4 DEF hashFile, pair
    <3>2. packager.files \in SUBSET Pair
      BY <2>1 DEF PackagerRun
    <3>3. files \in SUBSET Pair /\ pc \in {"hash", "copy"}
      BY <2>3, <3>2
    <3> HIDE DEF files, pc
    <3>4. packager' \in PackagerRun
      BY <2>1, <3>1, <3>3 DEF PackagerRun
    <3> QED BY <2>4, <3>4 DEF hashFile
  <2>5. CASE CopyComponent(c)
    <3>1. packager' = [packager EXCEPT !.entries = @ \cup {pair}]
      BY <2>5 DEF CopyComponent, pair
    <3>2. packager' \in PackagerRun
      BY <2>1, <2>3, <3>1 DEF PackagerRun
    <3> QED BY <2>5, <3>2 DEF CopyComponent
  <2> QED BY <1>4, <2>4, <2>5
<1>5. ASSUME CreateSignedPackage
      PROVE  packager' = NoPackager /\ source' = source /\ packages \subseteq packages'
             /\ packages' \in SUBSET Package
  <2>1. packager \in PackagerRun
    BY <1>0, <1>5, RunKinds DEF CreateSignedPackage, PackageTypes
  <2>2. packager.options \in PackageOptions /\ packager.files \in SUBSET Pair
        /\ packager.entries \in SUBSET Pair
    BY <2>1 DEF PackagerRun
  <2> DEFINE o == packager.options
             m == [release |-> o.release, minimum |-> o.minimum, channel |-> o.channel,
                   architecture |-> o.architecture, files |-> packager.files]
             p == [key |-> o.key, entries |-> packager.entries, manifest |-> m]
  <2>3. m \in Manifest
    BY <2>2 DEF Manifest, Releases
  <2> HIDE DEF m
  <2>4. p \in Package
    BY <2>2, <2>3 DEF Package
  <2> HIDE DEF p
  <2>5. packages' = packages \cup {p}
    BY <1>5 DEF CreateSignedPackage, p, m
  <2> QED BY <1>0, <1>5, <2>4, <2>5 DEF CreateSignedPackage, PackageTypes
<1>6. ASSUME PackagerFails
      PROVE  packager' = NoPackager /\ source' = source /\ packages' = packages
  BY <1>6 DEF PackagerFails
<1>7. /\ source' \in [Components -> Nat] /\ packager' \in {NoPackager} \cup PackagerRun
      /\ packages' \in SUBSET Package /\ packages \subseteq packages'
  <2>1. /\ source \in [Components -> Nat] /\ packager \in {NoPackager} \cup PackagerRun
        /\ packages \in SUBSET Package
    BY <1>0 DEF PackageTypes
  <2> QED BY <1>2, <1>3, <1>4, <1>5, <1>6, <2>1 DEF Packager
<1>8. UpdaterInv' /\ WorkerInv' /\ FloorInv' /\ UNCHANGED clientVars
  BY <1>1, <1>7, ClientUntouched
<1>9. PackageTypes'
  BY <1>0, <1>7, <1>8 DEF PackageTypes, FileTypes, clientVars
<1>10. FileInv'
  BY <1>1, <1>7 DEF PackageInv, FileInv
<1> QED BY <1>8, <1>9, <1>10 DEF PackageInv

LEMMA DeliverStep ==
    ASSUME PackageInv, NEW p \in packages, NEW entries, Deliver(p, entries)
    PROVE  PackageInv'
<1>1. UNCHANGED clientVars /\ UNCHANGED <<source, packager, packages>>
  BY DEF Deliver, buildVars
<1>2. UpdaterInv' /\ WorkerInv' /\ FloorInv' /\ UNCHANGED clientVars
  BY <1>1, ClientUntouched
<1>3. PackageTypes'
  BY <1>1, <1>2 DEF PackageInv, PackageTypes, FileTypes, clientVars
<1>4. p \in Package
  BY DEF PackageInv, PackageTypes
<1>5. file'.key = p.key /\ file'.manifest = p.manifest
  BY <1>4 DEF Deliver, Package
<1>6. FileInv'
  BY <1>1, <1>5 DEF FileInv
<1> QED BY <1>2, <1>3, <1>6 DEF PackageInv

(* A step of updater u, in its own stage directory.                        *)
LEMMA OneUpdaterMoves ==
    ASSUME PackageInv, packages' = packages, NEW u \in Updaters, NEW d \in Dirs,
           NEW r \in {NoUpdater} \cup UpdaterRun, updater' = [updater EXCEPT ![u] = r],
           \A e \in Dirs : e # d => stage'[e] = stage[e],
           \A v \in Updaters : v # u /\ Staging(updater[v]) => updater[v].dir # d,
           r # NoUpdater => Released(r.manifest),
           Staging(r) =>
               /\ r.dir = d
               /\ stage'[d] # NoStage /\ stage'[d].files \subseteq r.manifest.files
               /\ r.pc = "install" =>
                      /\ stage'[d] \in FullStage /\ stage'[d].release = r.manifest.release
                      /\ Named(stage'[d].files) = Named(r.manifest.files)
    PROVE  /\ UpdaterInv' /\ updater' \in [Updaters -> {NoUpdater} \cup UpdaterRun]
           /\ updater'[u] = r /\ \A v \in Updaters : v # u => updater'[v] = updater[v]
<1>1. updater \in [Updaters -> {NoUpdater} \cup UpdaterRun]
  BY DEF PackageInv, PackageTypes
<1>2. /\ updater' \in [Updaters -> {NoUpdater} \cup UpdaterRun]
      /\ updater'[u] = r /\ \A v \in Updaters : v # u => updater'[v] = updater[v]
  BY <1>1
<1>3. r # NoUpdater => UpdaterOK(updater[u], stage[updater[u].dir])'
  BY <1>2 DEF UpdaterOK, Released, Staging
<1>4. ASSUME NEW v \in Updaters, v # u, updater[v] # NoUpdater
      PROVE  UpdaterOK(updater[v], stage[updater[v].dir])'
  <2>1. updater[v].dir \in Dirs /\ (Staging(updater[v]) => updater[v].dir # d)
    BY <1>1, <1>4, RunKinds
  <2> QED BY <1>2, <1>4, <2>1, UpdaterKept
<1>5. \A v, w \in Updaters :
          v # w /\ Staging(updater'[v]) /\ Staging(updater'[w]) =>
              updater'[v].dir # updater'[w].dir
  <2>1. \A v \in Updaters : v # u /\ Staging(updater'[v]) /\ Staging(r) =>
            updater'[v].dir # r.dir
    BY <1>2
  <2>2. \A v, w \in Updaters :
            v # w /\ v # u /\ w # u /\ Staging(updater'[v]) /\ Staging(updater'[w]) =>
                updater'[v].dir # updater'[w].dir
    BY <1>2 DEF PackageInv, UpdaterInv
  <2> QED BY <1>2, <2>1, <2>2
<1>6. \A v \in Updaters : updater'[v] # NoUpdater => UpdaterOK(updater[v], stage[updater[v].dir])'
  BY <1>2, <1>3, <1>4
<1> QED BY <1>2, <1>5, <1>6 DEF UpdaterInv, Staging

(* What the updater that runs has, and the others have not.                *)
LEMMA Running ==
    ASSUME PackageInv, NEW u \in Updaters, Staging(updater[u])
    PROVE  /\ updater[u] # NoUpdater /\ updater[u].own \in Releases
           /\ updater[u] \in UpdaterRun /\ updater[u].dir \in Dirs /\ updater[u].manifest \in Manifest
           /\ Released(updater[u].manifest)
           /\ stage[updater[u].dir] \in TmpStage \cup FullStage
           /\ Staged(u) \subseteq updater[u].manifest.files /\ Staged(u) \in SUBSET Pair
           /\ updater[u].pc = "install" =>
                  /\ stage[updater[u].dir] \in FullStage
                  /\ stage[updater[u].dir].release = updater[u].manifest.release
                  /\ Named(Staged(u)) = Named(updater[u].manifest.files)
           /\ \A v \in Updaters :
                  v # u /\ Staging(updater[v]) => updater[v].dir # updater[u].dir
<1>1. updater[u] \in {NoUpdater} \cup UpdaterRun
  BY DEF PackageInv, PackageTypes
<1>2. /\ updater[u] # NoUpdater /\ updater[u].own \in Releases
      /\ updater[u] \in UpdaterRun /\ updater[u].dir \in Dirs /\ updater[u].manifest \in Manifest
  <2>1. updater[u].pc # "idle"
    BY DEF Staging
  <2> QED BY <1>1, <2>1, RunKinds
<1>3. UpdaterOK(updater[u], stage[updater[u].dir])
  BY <1>2 DEF PackageInv, UpdaterInv
<1>4. stage[updater[u].dir] \in TmpStage \cup FullStage
  BY <1>2, <1>3 DEF PackageInv, PackageTypes, UpdaterOK
<1>5. Staged(u) \in SUBSET Pair
  BY <1>4, StageKinds DEF Staged
<1>6. \A v \in Updaters : v # u /\ Staging(updater[v]) => updater[v].dir # updater[u].dir
  BY DEF PackageInv, UpdaterInv
<1> QED BY <1>2, <1>3, <1>4, <1>5, <1>6 DEF UpdaterOK, Staged

(* A step that changes neither a version nor a file of the worker, nor, as *)
(* long as the worker holds the lock, update-state.json.                   *)
LEMMA WorkerKept ==
    ASSUME PackageInv, UNCHANGED <<binary, floor, seen>>,
           \/ updater'["worker"] = NoUpdater /\ updater["worker"].pc # "finish"
           \/ /\ updater["worker"] # NoUpdater
              /\ updater'["worker"].manifest = updater["worker"].manifest
              /\ updater'["worker"].own = updater["worker"].own
              /\ (updater'["worker"].pc = "finish") = (updater["worker"].pc = "finish")
              /\ Staging(updater'["worker"]) => Staging(updater["worker"]) /\ record' = record
    PROVE  WorkerInv' /\ FloorInv'
<1>1. NoUpdater.pc = "idle"
  BY DEF NoUpdater
<1>2. Held' = Held
  BY <1>1 DEF Held
<1>3. FloorInv'
  BY <1>2 DEF PackageInv, FloorInv
<1>4. CASE updater'["worker"] = NoUpdater
  BY <1>3, <1>4 DEF WorkerInv
<1>5. CASE /\ updater["worker"] # NoUpdater
           /\ updater'["worker"].manifest = updater["worker"].manifest
           /\ updater'["worker"].own = updater["worker"].own
           /\ Staging(updater'["worker"]) => Staging(updater["worker"]) /\ record' = record
  <2>1. Staging(updater'["worker"]) => Recorded' = Recorded
    BY <1>5 DEF Recorded
  <2> QED BY <1>3, <1>5, <2>1 DEF PackageInv, WorkerInv, Staging
<1> QED BY <1>3, <1>4, <1>5

(* The worker starts: it saves what update-state.json tells, and holds a   *)
(* release that is later than all it knows.                                *)
LEMMA NoteStep ==
    ASSUME PackageInv, updater["worker"] = NoUpdater, NoteInstalled,
           UNCHANGED <<binary, record>>, updater'["worker"].pc # "finish"
    PROVE  FileTypes' /\ FloorInv' /\ Saves(floor') \subseteq Saves(floor) \cup Recorded
<1>1. /\ FileTypes /\ binary \in Releases /\ Recorded \subseteq Releases
      /\ Saves(floor) \subseteq Releases
  BY FileKinds DEF PackageInv, PackageTypes
<1>2. floor' = KnownFloor(binary) /\ seen' = seen \cup Recorded
  BY DEF NoteInstalled
<1>3. /\ KnownFloor(binary) \in {NoFloor} \cup Floor
      /\ Saves(KnownFloor(binary)) \subseteq Saves(floor) \cup Recorded
      /\ PlainReleases =>
             \A v \in Saves(floor) \cup Recorded :
                 \E h \in {binary} \cup Saves(KnownFloor(binary)) : NotAfter(v, h)
  BY <1>1, FloorKnows
<1>4. floor' \in {NoFloor} \cup Floor /\ Saves(floor') \subseteq Saves(floor) \cup Recorded
  BY <1>2, <1>3
<1>5. FileTypes'
  BY <1>1, <1>2, <1>4 DEF FileTypes
<1>6. Held = {binary} \cup Saves(floor) /\ Held' = {binary} \cup Saves(floor')
  <2>1. updater["worker"].pc # "finish"
    <3>1. NoUpdater.pc = "idle"
      BY DEF NoUpdater
    <3> QED BY <3>1
  <2> QED BY <2>1 DEF Held
<1>7. ASSUME PlainReleases, NEW v \in seen' PROVE \E h \in Held' : NotAfter(v, h)
  <2>1. \A w \in {binary} \cup Saves(floor) \cup Recorded : \E h \in Held' : NotAfter(w, h)
    <3>1. NotAfter(binary, binary)
      BY <1>1, NotAfterItself
    <3> QED BY <1>2, <1>3, <1>6, <1>7, <3>1
  <2>2. CASE v \in Recorded
    BY <2>1, <2>2
  <2>3. CASE v \in seen
    <3>1. PICK w \in {binary} \cup Saves(floor) : NotAfter(v, w)
      BY <1>6, <1>7, <2>3 DEF PackageInv, FloorInv
    <3>2. PICK h \in Held' : NotAfter(w, h)
      BY <2>1
    <3>3. v \in Releases /\ w \in Releases /\ h \in Releases
      BY <1>1, <1>4, <1>6, <2>3 DEF FileTypes
    <3>4. NotAfter(v, h)
      BY <3>1, <3>2, <3>3, NotAfterTransitive
    <3> QED BY <3>4
  <2> QED BY <1>2, <1>7, <2>2, <2>3
<1> QED BY <1>4, <1>5, <1>7 DEF FloorInv

LEMMA VerifyStep ==
    ASSUME PackageInv, NEW u \in Updaters, NEW d \in Dirs, VerifyAndStage(u, d)
    PROVE  PackageInv'
<1> DEFINE r == [pc |-> "stage", dir |-> d, manifest |-> file.manifest, own |-> binary]
           tmp == [state |-> "tmp", files |-> {}]
<1>1. /\ updater[u] = NoUpdater /\ file # NoPackage /\ stage[d] = NoStage
      /\ stage' = [stage EXCEPT ![d] = tmp] /\ updater' = [updater EXCEPT ![u] = r]
      /\ verifyPackageEntries(file, currentVersion(u))
      /\ UNCHANGED <<source, packager, packages, file, installed, binary, target, record>>
      /\ IF u = "worker" THEN NoteInstalled ELSE UNCHANGED <<floor, seen>>
  BY DEF VerifyAndStage, buildVars
<1>2. PICK p \in packages : file.key = p.key /\ file.manifest = p.manifest
  BY <1>1 DEF PackageInv, FileInv
<1>3. file.manifest \in Manifest /\ binary \in Releases
  BY <1>2 DEF PackageInv, PackageTypes, Package
<1>4. Released(file.manifest)
  BY <1>1, <1>2 DEF verifyPackageEntries, Released
<1>5. /\ r \in UpdaterRun /\ r.pc = "stage" /\ r.dir = d /\ r.manifest = file.manifest
      /\ r.own = binary /\ r # NoUpdater
  <2>1. r \in UpdaterRun /\ r.pc = "stage" /\ NoUpdater.pc = "idle"
    BY <1>3 DEF UpdaterRun, NoUpdater
  <2> QED BY <2>1
<1>6. tmp \in TmpStage /\ tmp.files = {} /\ tmp # NoStage
  BY StageKinds DEF TmpStage
<1> HIDE DEF r, tmp
<1>7. stage \in [Dirs -> {NoStage} \cup TmpStage \cup FullStage]
  BY DEF PackageInv, PackageTypes
<1>8. /\ stage' \in [Dirs -> {NoStage} \cup TmpStage \cup FullStage] /\ stage'[d] = tmp
      /\ \A e \in Dirs : e # d => stage'[e] = stage[e]
  BY <1>1, <1>6, <1>7
<1>9. ASSUME NEW v \in Updaters, Staging(updater[v]) PROVE updater[v].dir # d
  <2>1. updater[v] # NoUpdater
    BY <1>9, Running
  <2> QED BY <1>1, <1>9, <2>1 DEF PackageInv, UpdaterInv, UpdaterOK
<1>10. /\ UpdaterInv' /\ updater' \in [Updaters -> {NoUpdater} \cup UpdaterRun]
       /\ updater'[u] = r /\ \A v \in Updaters : v # u => updater'[v] = updater[v]
  <2>1. /\ r.dir = d /\ Released(r.manifest)
        /\ stage'[d] # NoStage /\ stage'[d].files \subseteq r.manifest.files /\ r.pc # "install"
    BY <1>4, <1>5, <1>6, <1>8
  <2>2. r \in {NoUpdater} \cup UpdaterRun /\ packages' = packages
    BY <1>1, <1>5
  <2>3. updater' = [updater EXCEPT ![u] = r]
    BY <1>1
  <2> QED BY <1>8, <1>9, <2>1, <2>2, <2>3, OneUpdaterMoves
<1>11. FileTypes' /\ WorkerInv' /\ FloorInv'
  <2>1. CASE u # "worker"
    <3>1. updater'["worker"] = updater["worker"] /\ UNCHANGED <<binary, floor, seen, record>>
      BY <1>1, <1>10, <2>1 DEF Updaters
    <3>2. FileTypes'
      BY <3>1 DEF PackageInv, PackageTypes, FileTypes
    <3>3. NoUpdater.pc = "idle"
      BY DEF NoUpdater
    <3> QED BY <3>1, <3>2, <3>3, WorkerKept
  <2>2. CASE u = "worker"
    <3> DEFINE w == file.manifest.release
               known == workerInstalledVersion(binary)
    <3>1. updater'["worker"] = r /\ NoteInstalled /\ updater["worker"] = NoUpdater
      BY <1>1, <1>10, <2>2
    <3>2. FileTypes' /\ FloorInv' /\ Saves(floor') \subseteq Saves(floor) \cup Recorded
      BY <1>1, <1>5, <3>1, NoteStep
    <3>3. Recorded' = Recorded
      BY <1>1 DEF Recorded
    <3>4. w \in Releases /\ FileTypes
      BY <1>3 DEF Manifest, PackageInv, PackageTypes
    <3>5. compareVersions(known, w) < 0
      BY <1>1, <2>2 DEF verifyPackageEntries, validateManifest, currentVersion
    <3>6. /\ known \in {binary} \cup Saves(floor) \cup Recorded
          /\ PlainReleases =>
                 \A v \in {binary} \cup Saves(floor) \cup Recorded : NotAfter(v, known)
      BY <1>3, <3>4, WorkerKnows
    <3>7. known \in Releases /\ {binary} \cup Saves(floor) \cup Recorded \subseteq Releases
      BY <1>3, <3>4, <3>6, FileKinds
    <3> HIDE DEF known, w
    <3>8. ASSUME PlainReleases, NEW v \in {binary} \cup Saves(floor) \cup Recorded
          PROVE  Precedes(v, w)
      <4>1. Precedes(known, w)
        BY <3>4, <3>5, <3>7, <3>8, ReleaseOrder
      <4>2. v \in Releases /\ NotAfter(v, known)
        BY <3>6, <3>7, <3>8
      <4> QED BY <3>4, <3>7, <4>1, <4>2, NotAfterPrecedes
    <3>9. updater'["worker"].own = binary /\ updater'["worker"].manifest.release = w
      BY <1>5, <3>1 DEF w
    <3>10. WorkerInv'
      BY <1>1, <3>2, <3>3, <3>8, <3>9 DEF WorkerInv
    <3> QED BY <3>2, <3>10
  <2> QED BY <2>1, <2>2
<1>12. PackageTypes'
  BY <1>1, <1>8, <1>10, <1>11 DEF PackageInv, PackageTypes
<1>13. FileInv'
  BY <1>1 DEF PackageInv, FileInv
<1> QED BY <1>10, <1>11, <1>12, <1>13 DEF PackageInv

LEMMA EndStep ==
    ASSUME PackageInv, NEW u \in Updaters, Staging(updater[u]), cleanup(u),
           record' \in {NoRecord} \cup Record,
           u # "worker" /\ Staging(updater["worker"]) => record' = record,
           UNCHANGED <<source, packager, packages, file, installed, binary, target, floor, seen>>
    PROVE  PackageInv'
<1> DEFINE d == updater[u].dir
<1>1. /\ d \in Dirs
      /\ \A v \in Updaters : v # u /\ Staging(updater[v]) => updater[v].dir # d
  BY Running
<1>2. updater' = [updater EXCEPT ![u] = NoUpdater] /\ stage' = [stage EXCEPT ![d] = NoStage]
  BY DEF cleanup
<1>3. /\ stage' \in [Dirs -> {NoStage} \cup TmpStage \cup FullStage]
      /\ \A e \in Dirs : e # d => stage'[e] = stage[e]
  <2>1. stage \in [Dirs -> {NoStage} \cup TmpStage \cup FullStage]
    BY DEF PackageInv, PackageTypes
  <2> QED BY <1>1, <1>2, <2>1
<1>4. ~Staging(NoUpdater)
  BY SMT, Z3 DEF Staging, NoUpdater
<1> HIDE DEF d
<1>5. /\ UpdaterInv' /\ updater' \in [Updaters -> {NoUpdater} \cup UpdaterRun]
      /\ updater'[u] = NoUpdater /\ \A v \in Updaters : v # u => updater'[v] = updater[v]
  BY <1>1, <1>2, <1>3, <1>4, OneUpdaterMoves
<1>6. PackageTypes'
  BY <1>3, <1>5 DEF PackageInv, PackageTypes, FileTypes
<1>7. WorkerInv' /\ FloorInv'
  <2>1. CASE u = "worker"
    <3>1. updater["worker"].pc # "finish"
      BY <2>1 DEF Staging
    <3> QED BY <1>5, <2>1, <3>1, WorkerKept
  <2>2. CASE u # "worker"
    <3>1. updater'["worker"] = updater["worker"]
      BY <1>5, <2>2 DEF Updaters
    <3>2. NoUpdater.pc = "idle"
      BY DEF NoUpdater
    <3> QED BY <2>2, <3>1, <3>2, WorkerKept
  <2> QED BY <2>1, <2>2
<1>8. FileInv'
  BY DEF PackageInv, FileInv
<1> QED BY <1>5, <1>6, <1>7, <1>8 DEF PackageInv

LEMMA StageEntryStep ==
    ASSUME PackageInv, NEW u \in Updaters, NEW c \in Components, stageEntry(u, c)
    PROVE  PackageInv'
<1> DEFINE r == updater[u]
           d == updater[u].dir
<1>1. /\ UNCHANGED <<source, packager, packages, file, installed, binary, target>>
      /\ UNCHANGED <<record, floor, seen>> /\ r.pc = "stage"
  BY DEF stageEntry, Unstaged, buildVars
<1>2. Staging(r) /\ FileTypes /\ FileTypes'
  BY <1>1 DEF Staging, PackageInv, PackageTypes, FileTypes
<1>3. /\ r \in UpdaterRun /\ d \in Dirs /\ Released(r.manifest)
      /\ stage[d] \in TmpStage \cup FullStage
      /\ stage[d].files \subseteq r.manifest.files /\ r.manifest \in Manifest
      /\ \A v \in Updaters : v # u /\ Staging(updater[v]) => updater[v].dir # d
  BY <1>2, Running DEF Staged
<1>4. stage \in [Dirs -> {NoStage} \cup TmpStage \cup FullStage]
      /\ updater \in [Updaters -> {NoUpdater} \cup UpdaterRun]
  BY DEF PackageInv, PackageTypes
<1>5. ASSUME NEW pair \in r.manifest.files, WriteEntry(u, pair)
      PROVE  PackageInv'
  <2> DEFINE s == [stage[d] EXCEPT !.files = @ \cup {pair}]
  <2>1. stage' = [stage EXCEPT ![d] = s] /\ updater' = updater
    BY <1>5 DEF WriteEntry
  <2>2. pair \in Pair
    BY <1>3 DEF Manifest
  <2>3. s \in TmpStage \cup FullStage /\ s.files = stage[d].files \cup {pair}
    <3>1. CASE stage[d] \in TmpStage
      BY <2>2, <3>1 DEF TmpStage
    <3>2. CASE stage[d] \in FullStage
      BY <2>2, <3>2 DEF FullStage
    <3> QED BY <1>3, <3>1, <3>2
  <2> HIDE DEF s
  <2>4. /\ stage' \in [Dirs -> {NoStage} \cup TmpStage \cup FullStage] /\ stage'[d] = s
        /\ \A e \in Dirs : e # d => stage'[e] = stage[e]
    BY <1>3, <1>4, <2>1, <2>3
  <2>5. s # NoStage /\ s.files \subseteq r.manifest.files
    BY <1>3, <1>5, <2>3, StageKinds
  <2>6. updater' = [updater EXCEPT ![u] = r] /\ r \in {NoUpdater} \cup UpdaterRun /\ r.pc # "install"
    BY <1>1, <1>3, <1>4, <2>1
  <2>7. UpdaterInv'
    BY <1>1, <1>3, <2>4, <2>5, <2>6, OneUpdaterMoves
  <2>8. PackageTypes'
    BY <1>1, <1>2, <1>4, <2>1, <2>4 DEF PackageInv, PackageTypes
  <2>9. WorkerInv' /\ FloorInv' /\ FileInv'
    <3>1. NoUpdater.pc = "idle"
      BY DEF NoUpdater
    <3>2. WorkerInv' /\ FloorInv'
      BY <1>1, <2>1, <3>1, WorkerKept
    <3> QED BY <1>1, <3>2 DEF PackageInv, FileInv
  <2> QED BY <2>7, <2>8, <2>9 DEF PackageInv
<1>6. ASSUME cleanup(u)
      PROVE  PackageInv'
  <2>1. record' \in {NoRecord} \cup Record
    BY <1>2 DEF FileTypes
  <2> QED BY <1>1, <1>2, <1>6, <2>1, EndStep
<1> QED BY <1>5, <1>6 DEF stageEntry

LEMMA RenameStep ==
    ASSUME PackageInv, NEW u \in Updaters, RenameStage(u)
    PROVE  PackageInv'
<1> DEFINE r == updater[u]
           d == updater[u].dir
           t == [r EXCEPT !.pc = "install"]
           s == [state |-> "staged", files |-> stage[d].files, release |-> r.manifest.release]
<1>1. /\ UNCHANGED <<source, packager, packages, file, installed, binary, target>>
      /\ UNCHANGED <<record, floor, seen>> /\ r.pc = "stage" /\ Unstaged(u) = {}
  BY DEF RenameStage, buildVars
<1>2. Staging(r)
  BY <1>1 DEF Staging
<1>3. /\ r \in UpdaterRun /\ d \in Dirs /\ Released(r.manifest)
      /\ stage[d].files \subseteq r.manifest.files /\ stage[d].files \in SUBSET Pair
      /\ r.manifest \in Manifest
      /\ \A v \in Updaters : v # u /\ Staging(updater[v]) => updater[v].dir # d
  BY <1>2, Running DEF Staged
<1>4. stage \in [Dirs -> {NoStage} \cup TmpStage \cup FullStage]
      /\ updater \in [Updaters -> {NoUpdater} \cup UpdaterRun]
  BY DEF PackageInv, PackageTypes
<1>5. stage' = [stage EXCEPT ![d] = s] /\ updater' = [updater EXCEPT ![u] = t]
  BY DEF RenameStage
<1>6. /\ t \in UpdaterRun /\ t.dir = d /\ t.manifest = r.manifest /\ t.pc = "install"
      /\ t.own = r.own
  BY <1>3 DEF UpdaterRun
<1>7. s \in FullStage /\ s.files = stage[d].files /\ s.release = r.manifest.release
  <2>1. r.manifest.release \in Releases
    BY <1>3 DEF Manifest
  <2> QED BY <1>3, <2>1 DEF FullStage
<1> HIDE DEF s, t
<1>8. /\ stage' \in [Dirs -> {NoStage} \cup TmpStage \cup FullStage] /\ stage'[d] = s
      /\ \A e \in Dirs : e # d => stage'[e] = stage[e]
  BY <1>3, <1>4, <1>5, <1>7
<1>9. Named(s.files) = Named(r.manifest.files)
  <2>1. Named(r.manifest.files) \subseteq Named(stage[d].files)
    BY <1>1 DEF Unstaged, Staged
  <2>2. Named(stage[d].files) \subseteq Named(r.manifest.files)
    BY <1>3 DEF Named
  <2> QED BY <1>7, <2>1, <2>2
<1>10. t \in {NoUpdater} \cup UpdaterRun /\ Released(t.manifest) /\ s # NoStage
       /\ s.files \subseteq t.manifest.files
  BY <1>3, <1>6, <1>7, StageKinds
<1>11. /\ UpdaterInv' /\ updater' \in [Updaters -> {NoUpdater} \cup UpdaterRun]
       /\ updater'[u] = t /\ \A v \in Updaters : v # u => updater'[v] = updater[v]
  <2>1. /\ t.dir = d /\ Released(t.manifest)
        /\ stage'[d] # NoStage /\ stage'[d].files \subseteq t.manifest.files
        /\ stage'[d] \in FullStage /\ stage'[d].release = t.manifest.release
        /\ Named(stage'[d].files) = Named(t.manifest.files)
    BY <1>6, <1>7, <1>8, <1>9, <1>10
  <2>2. packages' = packages /\ d \in Dirs /\ t \in {NoUpdater} \cup UpdaterRun
    BY <1>1, <1>3, <1>10
  <2>3. \A v \in Updaters : v # u /\ Staging(updater[v]) => updater[v].dir # d
    BY <1>3
  <2>4. updater' = [updater EXCEPT ![u] = t] /\ \A e \in Dirs : e # d => stage'[e] = stage[e]
    BY <1>5, <1>8
  <2> HIDE DEF d
  <2> QED BY <2>1, <2>2, <2>3, <2>4, OneUpdaterMoves
<1>12. PackageTypes'
  BY <1>1, <1>8, <1>11 DEF PackageInv, PackageTypes, FileTypes
<1>13. WorkerInv' /\ FloorInv'
  <2>1. CASE u = "worker"
    <3>1. updater'["worker"] = t /\ updater["worker"] = r /\ r # NoUpdater
      BY <1>2, <1>11, <2>1, Running
    <3>2. r.pc # "finish" /\ t.pc # "finish"
      BY <1>1, <1>6
    <3> QED BY <1>1, <1>2, <1>6, <3>1, <3>2, WorkerKept
  <2>2. CASE u # "worker"
    <3>1. updater'["worker"] = updater["worker"]
      BY <1>11, <2>2 DEF Updaters
    <3>2. NoUpdater.pc = "idle"
      BY DEF NoUpdater
    <3> QED BY <1>1, <3>1, <3>2, WorkerKept
  <2> QED BY <2>1, <2>2
<1>14. FileInv'
  BY <1>1 DEF PackageInv, FileInv
<1> QED BY <1>11, <1>12, <1>13, <1>14 DEF PackageInv

(* The content that is installed for a component of the stage directory is *)
(* the one that the manifest lists.                                        *)
LEMMA ContentIsSigned ==
    ASSUME NEW S \in SUBSET Pair, NEW c \in Named(S)
    PROVE  LET x == (CHOOSE pair \in Of(c, S) : TRUE)[2]
           IN  <<c, x>> \in S /\ x \in Nat
<1> DEFINE pair == CHOOSE p \in Of(c, S) : TRUE
<1>1. \E p \in Of(c, S) : TRUE
  BY DEF Named, Of
<1>2. pair \in Of(c, S)
  BY <1>1
<1> HIDE DEF pair
<1>3. pair \in S /\ pair[1] = c /\ pair \in Pair
  BY <1>2 DEF Of
<1>4. pair = <<c, pair[2]>> /\ pair[2] \in Nat
  BY SMT, Z3, <1>3 DEF Pair
<1> QED BY <1>3, <1>4 DEF pair

(* What InstallStaged makes of the run: the worker has still to finish.    *)
InstalledRun(u) ==
    IF u = "worker" THEN [updater[u] EXCEPT !.pc = "finish"] ELSE NoUpdater

LEMMA InstallEffect ==
    ASSUME PackageInv, NEW u \in Updaters, NEW allow \in BOOLEAN, InstallStaged(u, allow)
    PROVE  /\ Staging(updater[u]) /\ updater[u] # NoUpdater /\ updater[u] \in UpdaterRun
           /\ updater' = [updater EXCEPT ![u] = InstalledRun(u)]
           /\ \/ u # "worker" /\ InstalledRun(u) = NoUpdater
              \/ /\ u = "worker" /\ InstalledRun(u) \in UpdaterRun
                 /\ InstalledRun(u).pc = "finish" /\ InstalledRun(u).own = updater[u].own
                 /\ InstalledRun(u).manifest = updater[u].manifest
           /\ InstalledRun(u) = NoUpdater \/ InstalledRun(u).manifest = updater[u].manifest
           /\ stage' = [stage EXCEPT ![updater[u].dir] = NoStage]
           /\ UNCHANGED <<source, packager, packages, file, floor>>
           /\ installed' = updater[u].manifest.release /\ installed' \in Releases
           /\ binary' \in {binary, installed'}
           /\ record' \in Record
           /\ seen' = IF u = "worker" THEN seen \cup {installed'}
                      ELSE IF compareVersions(binary', binary) < 0 THEN {} ELSE seen
           /\ target' \in [Components -> Nat]
           /\ \A c \in Components :
                  IF c \in Named(updater[u].manifest.files)
                    THEN <<c, target'[c]>> \in updater[u].manifest.files
                    ELSE target'[c] = target[c]
           /\ u # "worker" => ~Staging(updater["worker"])
           /\ Released(updater[u].manifest)
<1> DEFINE m == updater[u].manifest
           content(c) == (CHOOSE pair \in Of(c, Staged(u)) : TRUE)[2]
<1>1. /\ updater[u].pc = "install"
      /\ UNCHANGED <<source, packager, packages, file, floor>>
      /\ stage' = [stage EXCEPT ![updater[u].dir] = NoStage]
      /\ (u = "manual" => updater["worker"].pc \in {"idle", "finish"})
      /\ installed' = stage[updater[u].dir].release
      /\ target' = [c \in Components |-> IF c \in Named(Staged(u)) THEN content(c) ELSE target[c]]
  BY DEF InstallStaged, buildVars, LockFree
<1>2. /\ binary' \in {binary, installed'}
      /\ record' = [status |-> "success", release |-> installed']
      /\ seen' = IF u = "worker" THEN seen \cup {installed'}
                 ELSE IF compareVersions(binary', binary) < 0 THEN {} ELSE seen
      /\ updater' = [updater EXCEPT ![u] =
             IF u = "worker" THEN [@ EXCEPT !.pc = "finish"] ELSE NoUpdater]
  BY DEF InstallStaged
<1>3. Staging(updater[u])
  BY <1>1 DEF Staging
<1>4. /\ Staged(u) \in SUBSET Pair /\ Staged(u) \subseteq m.files /\ m \in Manifest
      /\ stage[updater[u].dir].release = m.release
      /\ Named(Staged(u)) = Named(m.files) /\ Released(m)
      /\ updater[u] \in UpdaterRun /\ updater[u] # NoUpdater
  BY <1>1, <1>3, Running
<1>5. \A c \in Named(Staged(u)) : <<c, content(c)>> \in Staged(u) /\ content(c) \in Nat
  BY <1>4, ContentIsSigned
<1> HIDE DEF content
<1>6. target \in [Components -> Nat] /\ updater \in [Updaters -> {NoUpdater} \cup UpdaterRun]
  BY DEF PackageInv, PackageTypes
<1>7. target' \in [Components -> Nat]
  BY <1>1, <1>5, <1>6
<1>8. \A c \in Components : target'[c] = IF c \in Named(Staged(u)) THEN content(c) ELSE target[c]
  BY <1>1
<1>9. \A c \in Components :
          IF c \in Named(m.files) THEN <<c, target'[c]>> \in m.files ELSE target'[c] = target[c]
  BY <1>4, <1>5, <1>8
<1>10. installed' = m.release /\ m.release \in Releases
  BY <1>1, <1>4 DEF Manifest
<1>11. record' \in Record
  BY <1>2, <1>10 DEF Record
<1>12. u # "worker" => ~Staging(updater["worker"])
  BY <1>1 DEF Updaters, Staging
<1>13. updater' = [updater EXCEPT ![u] = InstalledRun(u)]
  BY <1>2, <1>6 DEF InstalledRun
<1>14. CASE u = "worker"
  <2>1. InstalledRun(u) = [updater[u] EXCEPT !.pc = "finish"]
    BY <1>14 DEF InstalledRun
  <2>2. /\ InstalledRun(u) \in UpdaterRun
        /\ InstalledRun(u).pc = "finish" /\ InstalledRun(u).own = updater[u].own
        /\ InstalledRun(u).manifest = updater[u].manifest
    BY <1>4, <2>1 DEF UpdaterRun
  <2> QED BY <1>1, <1>2, <1>3, <1>4, <1>7, <1>9, <1>10, <1>11, <1>13, <1>14, <2>2
<1>15. CASE u # "worker"
  <2>1. InstalledRun(u) = NoUpdater
    BY <1>15 DEF InstalledRun
  <2> QED BY <1>1, <1>2, <1>3, <1>4, <1>7, <1>9, <1>10, <1>11, <1>12, <1>13, <1>15, <2>1
<1> QED BY <1>14, <1>15

LEMMA InstallStep ==
    ASSUME PackageInv, NEW u \in Updaters, NEW allow \in BOOLEAN, InstallStaged(u, allow)
    PROVE  PackageInv'
<1> DEFINE t == InstalledRun(u)
           d == updater[u].dir
           release == updater[u].manifest.release
<1>1. /\ Staging(updater[u]) /\ updater[u] # NoUpdater /\ updater[u] \in UpdaterRun
      /\ updater' = [updater EXCEPT ![u] = t]
      /\ \/ u # "worker" /\ t = NoUpdater
         \/ /\ u = "worker" /\ t \in UpdaterRun /\ t.pc = "finish" /\ t.own = updater[u].own
            /\ t.manifest = updater[u].manifest
      /\ stage' = [stage EXCEPT ![d] = NoStage]
      /\ UNCHANGED <<source, packager, packages, file, floor>>
      /\ installed' = release /\ installed' \in Releases /\ binary' \in {binary, installed'}
      /\ record' \in Record
      /\ seen' = IF u = "worker" THEN seen \cup {installed'}
                 ELSE IF compareVersions(binary', binary) < 0 THEN {} ELSE seen
      /\ target' \in [Components -> Nat]
      /\ u # "worker" => ~Staging(updater["worker"])
      /\ Released(updater[u].manifest)
  BY InstallEffect
<1> HIDE DEF t
<1>2. /\ d \in Dirs
      /\ \A v \in Updaters : v # u /\ Staging(updater[v]) => updater[v].dir # d
  BY <1>1, Running
<1>3. /\ packages' = packages /\ \A e \in Dirs : e # d => stage'[e] = stage[e]
      /\ stage' \in [Dirs -> {NoStage} \cup TmpStage \cup FullStage]
  <2>1. stage \in [Dirs -> {NoStage} \cup TmpStage \cup FullStage]
    BY DEF PackageInv, PackageTypes
  <2> QED BY <1>1, <1>2, <2>1
<1>4. ~Staging(t) /\ t \in {NoUpdater} \cup UpdaterRun /\ (t # NoUpdater => Released(t.manifest))
  <2>1. ~Staging(NoUpdater)
    BY SMT, Z3 DEF Staging, NoUpdater
  <2>2. t.pc = "finish" => ~Staging(t)
    BY DEF Staging
  <2> QED BY <1>1, <2>1, <2>2
<1>5. /\ UpdaterInv' /\ updater' \in [Updaters -> {NoUpdater} \cup UpdaterRun]
      /\ updater'[u] = t /\ \A v \in Updaters : v # u => updater'[v] = updater[v]
  <2>1. updater' = [updater EXCEPT ![u] = t]
    BY <1>1
  <2> HIDE DEF d
  <2> QED BY <1>2, <1>3, <1>4, <2>1, OneUpdaterMoves
<1>6. /\ binary \in Releases /\ binary' \in Releases /\ FileTypes /\ FileTypes'
      /\ Saves(floor) \subseteq Releases /\ seen \subseteq Releases
  <2>1. FileTypes /\ binary \in Releases
    BY DEF PackageInv, PackageTypes
  <2>2. binary' \in Releases
    BY <1>1, <2>1
  <2>3. FileTypes'
    BY <1>1, <2>1 DEF FileTypes
  <2> QED BY <2>1, <2>2, <2>3, FileKinds DEF FileTypes
<1>7. PackageTypes'
  BY <1>1, <1>3, <1>5, <1>6 DEF PackageInv, PackageTypes
<1>8. WorkerInv' /\ FloorInv'
  <2>1. CASE u = "worker"
    <3>1. /\ updater'["worker"] = t /\ t.pc = "finish" /\ t.own = updater["worker"].own
          /\ t.manifest = updater["worker"].manifest /\ release = updater["worker"].manifest.release
      BY <1>1, <1>5, <2>1
    <3>2. PlainReleases =>
              /\ Precedes(updater["worker"].own, release)
              /\ \A v \in {binary} \cup Saves(floor) : Precedes(v, release)
      BY <1>1, <2>1 DEF PackageInv, WorkerInv
    <3>3. WorkerInv'
      <4>1. ~Staging(updater'["worker"])
        BY <1>4, <3>1
      <4> QED BY <3>1, <3>2, <4>1 DEF WorkerInv
    <3>4. Held = {binary} \cup Saves(floor) /\ release \in Held'
      <4>1. updater["worker"].pc # "finish"
        BY <1>1, <2>1 DEF Staging
      <4> QED BY <3>1, <4>1 DEF Held
    <3>5. ASSUME PlainReleases, NEW v \in seen' PROVE NotAfter(v, release)
      <4>1. CASE v = release
        BY <1>1, <4>1, NotAfterItself
      <4>2. CASE v \in seen
        <5>1. PICK h \in {binary} \cup Saves(floor) : NotAfter(v, h)
          BY <3>4, <3>5, <4>2 DEF PackageInv, FloorInv
        <5>2. Precedes(h, release) /\ h \in Releases /\ v \in Releases /\ release \in Releases
          BY <1>1, <1>6, <3>2, <3>5, <4>2
        <5>3. Precedes(v, release)
          BY <5>1, <5>2, NotAfterPrecedes
        <5> QED BY <5>3 DEF NotAfter
      <4> QED BY <1>1, <2>1, <3>5, <4>1, <4>2
    <3>6. FloorInv'
      BY <3>4, <3>5 DEF FloorInv
    <3> QED BY <3>3, <3>6
  <2>2. CASE u # "worker"
    <3>1. updater'["worker"] = updater["worker"] /\ ~Staging(updater["worker"])
      BY <1>1, <1>5, <2>2 DEF Updaters
    <3>2. WorkerInv'
      BY <3>1 DEF PackageInv, WorkerInv
    <3> DEFINE rest == Saves(floor) \cup
                  (IF updater["worker"].pc = "finish"
                     THEN {updater["worker"].manifest.release} ELSE {})
    <3>3. Held = {binary} \cup rest /\ Held' = {binary'} \cup rest
      BY <1>1, <3>1 DEF Held
    <3> HIDE DEF rest
    <3>4. ASSUME PlainReleases, NEW v \in seen' PROVE \E h \in Held' : NotAfter(v, h)
      <4>1. ~(compareVersions(binary', binary) < 0) /\ v \in seen
        BY <1>1, <2>2, <3>4
      <4>2. NotAfter(binary, binary')
        BY <1>6, <3>4, <4>1, ReleaseOrder
      <4>3. PICK h \in Held : NotAfter(v, h)
        BY <3>4, <4>1 DEF PackageInv, FloorInv
      <4>4. CASE h = binary
        BY <1>6, <3>3, <4>1, <4>2, <4>3, <4>4, NotAfterTransitive
      <4>5. CASE h \in rest
        BY <3>3, <4>3, <4>5
      <4> QED BY <3>3, <4>3, <4>4, <4>5
    <3>5. FloorInv'
      BY <3>4 DEF FloorInv
    <3> QED BY <3>2, <3>5
  <2> QED BY <2>1, <2>2
<1>9. FileInv'
  BY <1>1 DEF PackageInv, FileInv
<1> QED BY <1>5, <1>7, <1>8, <1>9 DEF PackageInv

LEMMA ClientStep ==
    ASSUME PackageInv, NEW u \in Updaters, Client(u)
    PROVE  PackageInv'
<1>1. CASE Ends(u)
  <2>1. /\ Staging(updater[u]) /\ cleanup(u)
        /\ UNCHANGED <<source, packager, packages, file, installed, binary, target, floor, seen>>
        /\ \/ record' = record
           \/ /\ record' = [status |-> "failed", release |-> updater[u].manifest.release]
              /\ u = "manual" => LockFree
    BY <1>1 DEF Ends, buildVars, Staging
  <2>2. updater[u].manifest.release \in Releases
    BY <2>1, Running DEF Manifest
  <2>3. record' \in {NoRecord} \cup Record
    <3>1. record \in {NoRecord} \cup Record
      BY DEF PackageInv, PackageTypes, FileTypes
    <3>2. [status |-> "failed", release |-> updater[u].manifest.release] \in Record
      BY <2>2 DEF Record
    <3> QED BY <2>1, <3>1, <3>2
  <2>4. u # "worker" /\ Staging(updater["worker"]) => record' = record
    BY <2>1 DEF LockFree, Staging, Updaters
  <2> QED BY <2>1, <2>3, <2>4, EndStep
<1> QED BY <1>1, VerifyStep, StageEntryStep, RenameStep, InstallStep DEF Client

LEMMA RefuseStep ==
    ASSUME PackageInv, WorkerRefuses
    PROVE  PackageInv'
<1>1. /\ updater["worker"] = NoUpdater /\ NoteInstalled
      /\ UNCHANGED <<source, packager, packages, file, updater, stage, installed, binary, target,
                     record>>
  BY DEF WorkerRefuses, buildVars
<1>2. updater'["worker"].pc # "finish"
  <2>1. NoUpdater.pc = "idle"
    BY DEF NoUpdater
  <2> QED BY <1>1, <2>1
<1>3. FileTypes' /\ FloorInv'
  BY <1>1, <1>2, NoteStep
<1>4. \A u \in Updaters : updater'[u] # NoUpdater => UpdaterOK(updater[u], stage[updater[u].dir])'
  BY <1>1, UpdaterKept
<1>5. UpdaterInv'
  BY <1>1, <1>4 DEF PackageInv, UpdaterInv, Staging
<1>6. PackageTypes' /\ FileInv' /\ WorkerInv'
  BY <1>1, <1>3 DEF PackageInv, PackageTypes, FileInv, WorkerInv
<1> QED BY <1>3, <1>5, <1>6 DEF PackageInv

LEMMA FinishStep ==
    ASSUME PackageInv, finishWorker
    PROVE  PackageInv'
<1> DEFINE w == updater["worker"]
           release == updater["worker"].manifest.release
<1>1. /\ w.pc = "finish" /\ seen' = seen \cup Recorded
      /\ updater' = [updater EXCEPT !["worker"] = NoUpdater]
      /\ UNCHANGED <<source, packager, packages, file, stage, installed, binary, target, record>>
  BY DEF finishWorker, buildVars
<1>2. PICK own \in {w.own, binary} :
          floor' = IF compareVersions(release, workerInstalledVersion(own)) > 0
                     THEN [saved |-> TRUE, version |-> release] ELSE KnownFloor(own)
  BY DEF finishWorker
<1>3. /\ updater \in [Updaters -> {NoUpdater} \cup UpdaterRun] /\ "worker" \in Updaters
      /\ FileTypes /\ binary \in Releases
  BY DEF PackageInv, PackageTypes, Updaters
<1>4. w # NoUpdater /\ w.own \in Releases /\ release \in Releases
  <2>1. w # NoUpdater /\ w.own \in Releases /\ w.manifest \in Manifest
    BY <1>1, <1>3, RunKinds
  <2> QED BY <2>1 DEF Manifest
<1>5. PlainReleases => own = binary \/ Precedes(own, release)
  BY <1>2, <1>4 DEF PackageInv, WorkerInv
<1>6. /\ own \in Releases /\ Recorded \subseteq Releases /\ Saves(floor) \subseteq Releases
      /\ seen \subseteq Releases
  BY <1>2, <1>3, <1>4, FileKinds DEF FileTypes
<1>7. floor' \in {NoFloor} \cup Floor
  <2>1. KnownFloor(own) \in {NoFloor} \cup Floor
    BY <1>3, <1>6, FloorKnows
  <2> QED BY <1>2, <1>4, <2>1, FileKinds
<1>8. FileTypes'
  BY <1>1, <1>3, <1>6, <1>7 DEF FileTypes
<1>9. Saves(floor') \subseteq Releases
  BY <1>7, FileKinds DEF Saves
<1>10. /\ updater' \in [Updaters -> {NoUpdater} \cup UpdaterRun]
       /\ updater'["worker"] = NoUpdater
       /\ \A v \in Updaters : v # "worker" => updater'[v] = updater[v]
  BY <1>1, <1>3
<1>11. Held = {binary} \cup Saves(floor) \cup {release} /\ Held' = {binary} \cup Saves(floor')
  <2>1. updater'["worker"].pc # "finish"
    <3>1. NoUpdater.pc = "idle"
      BY DEF NoUpdater
    <3> QED BY <1>10, <3>1
  <2> QED BY <1>1, <2>1 DEF Held
<1>12. ASSUME PlainReleases, NEW v \in seen' PROVE \E h \in Held' : NotAfter(v, h)
  <2>1. \A x \in Saves(floor) \cup Recorded \cup {release} : \E h \in Held' : NotAfter(x, h)
    <3>1. \A x \in Saves(floor) \cup Recorded \cup {release} :
              \E h \in {binary} \cup Saves(floor') : NotAfter(x, h)
      <4> HIDE DEF w, release
      <4> QED BY <1>2, <1>3, <1>4, <1>5, <1>6, <1>12, FinishKnows
    <3> QED BY <1>11, <3>1
  <2>2. CASE v \in Recorded
    BY <2>1, <2>2
  <2>3. CASE v \in seen
    <3>1. PICK x \in Held : NotAfter(v, x)
      BY <1>12, <2>3 DEF PackageInv, FloorInv
    <3>2. CASE x = binary
      BY <1>11, <3>1, <3>2
    <3>3. CASE x \in Saves(floor) \cup {release}
      <4>1. PICK h \in Held' : NotAfter(x, h)
        BY <2>1, <3>3
      <4>2. v \in Releases /\ x \in Releases /\ h \in Releases
        BY <1>3, <1>4, <1>6, <1>9, <1>11, <2>3, <3>3
      <4>3. NotAfter(v, h)
        BY <3>1, <4>1, <4>2, NotAfterTransitive
      <4> QED BY <4>3
    <3> QED BY <1>11, <3>1, <3>2, <3>3
  <2> QED BY <1>1, <1>12, <2>2, <2>3
<1>13. FloorInv'
  BY <1>12 DEF FloorInv
<1>14. ~Staging(NoUpdater)
  BY SMT, Z3 DEF Staging, NoUpdater
<1>15. UpdaterInv'
  <2>1. \A u \in Updaters : updater'[u] # NoUpdater => UpdaterOK(updater[u], stage[updater[u].dir])'
    BY <1>1, <1>10, UpdaterKept
  <2>2. \A u \in Updaters : Staging(updater'[u]) => updater'[u] = updater[u]
    BY <1>10, <1>14
  <2>3. \A u, v \in Updaters :
            u # v /\ Staging(updater'[u]) /\ Staging(updater'[v]) => updater'[u].dir # updater'[v].dir
    BY <2>2 DEF PackageInv, UpdaterInv
  <2> QED BY <2>1, <2>3 DEF UpdaterInv, Staging
<1>16. PackageTypes' /\ FileInv' /\ WorkerInv'
  BY <1>1, <1>8, <1>10 DEF PackageInv, PackageTypes, FileInv, WorkerInv
<1> QED BY <1>13, <1>15, <1>16 DEF PackageInv

-----------------------------------------------------------------------------
(* The theorems *)

LEMMA PackageInit ==
    ASSUME Init
    PROVE  PackageInv
<1>1. /\ source \in [Components -> Nat] /\ target \in [Components -> Nat]
  BY DEF Init
<1>2. /\ packager = NoPackager /\ packages = {} /\ file = NoPackage
      /\ updater \in [Updaters -> {NoUpdater} \cup UpdaterRun]
      /\ stage \in [Dirs -> {NoStage} \cup TmpStage \cup FullStage]
      /\ installed \in Releases /\ binary \in Releases
      /\ FileTypes /\ seen = {}
  BY DEF Init, Releases, FileTypes
<1>3. /\ \A u \in Updaters : updater[u] = NoUpdater
      /\ ~Staging(NoUpdater)
  <2>1. ~Staging(NoUpdater)
    BY SMT, Z3 DEF Staging, NoUpdater
  <2> QED BY <2>1 DEF Init
<1>4. PackageTypes
  BY <1>1, <1>2 DEF PackageTypes
<1> QED BY <1>2, <1>3, <1>4 DEF PackageInv, FileInv, UpdaterInv, WorkerInv, FloorInv, Updaters

LEMMA PackageNext ==
    ASSUME PackageInv, [Next]_vars
    PROVE  PackageInv'
<1>1. CASE UNCHANGED vars
  <2>1. /\ UNCHANGED clientVars /\ file' = file /\ UNCHANGED <<source, packager, packages>>
    BY <1>1 DEF vars, buildVars
  <2>2. UpdaterInv' /\ WorkerInv' /\ FloorInv' /\ UNCHANGED clientVars
    BY <2>1, ClientUntouched
  <2>3. PackageTypes' /\ FileInv'
    BY <2>1, <2>2 DEF PackageInv, PackageTypes, FileTypes, FileInv, clientVars
  <2> QED BY <2>2, <2>3 DEF PackageInv
<1> QED BY <1>1, PackagerSteps, DeliverStep, ClientStep, RefuseStep, FinishStep DEF Next

(* Every reachable state of the packager and the client satisfies          *)
(* PackageInv.                                                             *)
THEOREM PackagesInvariant == Spec => []PackageInv
  BY PTL, PackageInit, PackageNext DEF Spec

(* Only an installation changes installed files.                           *)
LEMMA OnlyInstallation ==
    ASSUME [Next]_vars,
           ~\E u \in Updaters : \E allow \in BOOLEAN : InstallStaged(u, allow)
    PROVE  UNCHANGED <<installed, binary, target>>
<1>1. (\E c \in Components : Build(c)) \/ Packager => UNCHANGED <<installed, binary, target>>
  BY DEF Build, Packager, StartPackager, hashFile, CopyComponent, CreateSignedPackage,
     PackagerFails, clientVars
<1>2. \A p \in packages : \A entries : Deliver(p, entries) => UNCHANGED <<installed, binary, target>>
  BY DEF Deliver, clientVars
<1>3. \A u \in Updaters :
          \/ \E d \in Dirs : VerifyAndStage(u, d)
          \/ \E c \in Components : stageEntry(u, c)
          \/ RenameStage(u) \/ Ends(u)
          => UNCHANGED <<installed, binary, target>>
  BY DEF VerifyAndStage, stageEntry, RenameStage, Ends
<1>4. WorkerRefuses \/ finishWorker => UNCHANGED <<installed, binary, target>>
  BY DEF WorkerRefuses, finishWorker
<1>5. UNCHANGED vars => UNCHANGED <<installed, binary, target>>
  BY DEF vars, clientVars
<1> QED BY <1>1, <1>2, <1>3, <1>4, <1>5 DEF Next, Client

(* Only InstallStaged changes installed files, and it changes them to the  *)
(* files of one manifest that the release key signed.                      *)
THEOREM FilesAreSigned == Spec => InstalledAsSigned
<1> DEFINE Signed ==
      target' # target =>
          \E p \in packages :
              /\ p.key = ReleaseKey /\ p.manifest.release = installed'
              /\ \A c \in Components :
                     IF c \in Named(p.manifest.files)
                       THEN <<c, target'[c]>> \in p.manifest.files
                       ELSE target'[c] = target[c]
<1>1. ASSUME PackageInv, [Next]_vars PROVE Signed
  <2>1. ASSUME NEW u \in Updaters, NEW allow \in BOOLEAN, InstallStaged(u, allow) PROVE Signed
    <3>1. /\ installed' = updater[u].manifest.release /\ Released(updater[u].manifest)
          /\ \A c \in Components :
                 IF c \in Named(updater[u].manifest.files)
                   THEN <<c, target'[c]>> \in updater[u].manifest.files
                   ELSE target'[c] = target[c]
      BY <1>1, <2>1, InstallEffect
    <3>2. PICK p \in packages : p.key = ReleaseKey /\ p.manifest = updater[u].manifest
      BY <3>1 DEF Released
    <3> QED BY <3>1, <3>2
  <2> QED BY <1>1, <2>1, OnlyInstallation
<1> QED BY PTL, <1>1, PackagesInvariant DEF Spec, InstalledAsSigned

(* For any versions that validVersion accepts, the client list of the      *)
(* server and the updater agree on what is an update of what is installed, *)
(* unless a number of MAJOR.MINOR.PATCH is beyond an int, and they agree   *)
(* with semver.org on plain versions.                                      *)
THEOREM VerdictsAgree == Spec => []SameVerdict
<1>1. ASSUME PackageInv PROVE SameVerdict
  <2>1. installed \in Releases
    BY <1>1 DEF PackageInv, PackageTypes
  <2>2. \A v \in Versions : AgreeOn(v, installed) /\ AgreeOn(installed, v)
    BY <2>1, VersionsAgree, KnownVersions
  <2> QED BY <2>1, <2>2 DEF SameVerdict, AgreedOn
<1> QED BY PTL, <1>1, PackagesInvariant

(* If the releases are plain and ordered, the worker never goes back       *)
(* behind what it was once able to know: it holds the update lock from the *)
(* comparison to the installation, and whoever finishes its run saves the  *)
(* release.                                                                *)
THEOREM WorkerNeverGoesBack == Spec => WorkerOnlyUpgrades
<1> DEFINE Upgrade ==
      updater["worker"].pc = "install" /\ updater'["worker"].pc = "finish" /\ PlainReleases =>
          \A v \in seen \cup Recorded \cup {binary} : Precedes(v, installed')
<1>1. ASSUME PackageInv, [Next]_vars PROVE Upgrade
  <2>0. updater \in [Updaters -> {NoUpdater} \cup UpdaterRun] /\ "worker" \in Updaters
    BY <1>1 DEF PackageInv, PackageTypes, Updaters
  <2>1. ASSUME NEW u \in Updaters, NEW allow \in BOOLEAN, InstallStaged(u, allow) PROVE Upgrade
    <3> DEFINE release == updater["worker"].manifest.release
    <3> SUFFICES ASSUME updater["worker"].pc = "install", updater'["worker"].pc = "finish",
                        PlainReleases, NEW v \in seen \cup Recorded \cup {binary}
                 PROVE  Precedes(v, installed')
      OBVIOUS
    <3>1. /\ installed' = updater[u].manifest.release /\ installed' \in Releases
          /\ u # "worker" => ~Staging(updater["worker"])
      BY <1>1, <2>1, InstallEffect
    <3>2. Staging(updater["worker"]) /\ u = "worker" /\ installed' = release
      BY <3>1 DEF Staging
    <3>3. updater["worker"] # NoUpdater
      BY <1>1, <2>0, <3>2, Running
    <3>4. \A x \in {binary} \cup Saves(floor) \cup Recorded : Precedes(x, release)
      BY <1>1, <3>2, <3>3 DEF PackageInv, WorkerInv
    <3>5. CASE v \in Recorded \cup {binary}
      BY <3>2, <3>4, <3>5
    <3>6. CASE v \in seen
      <4>1. Held = {binary} \cup Saves(floor)
        BY DEF Held
      <4>2. PICK h \in {binary} \cup Saves(floor) : NotAfter(v, h)
        BY <1>1, <3>6, <4>1 DEF PackageInv, FloorInv
      <4>3. v \in Releases /\ h \in Releases
        BY <1>1, <3>6, FileKinds DEF PackageInv, PackageTypes, FileTypes
      <4>4. Precedes(h, release) /\ release \in Releases
        BY <3>1, <3>2, <3>4
      <4> HIDE DEF release
      <4>5. Precedes(v, release)
        BY <4>2, <4>3, <4>4, NotAfterPrecedes
      <4> QED BY <3>2, <4>5
    <3> QED BY <3>5, <3>6
  <2>2. CASE ~\E u \in Updaters : \E allow \in BOOLEAN : InstallStaged(u, allow)
    <3>1. ASSUME NEW u \in Updaters, updater' = [updater EXCEPT ![u] = NoUpdater] PROVE Upgrade
      <4>1. updater'["worker"] \in {updater["worker"], NoUpdater}
        BY <2>0, <3>1
      <4>2. NoUpdater.pc = "idle"
        BY DEF NoUpdater
      <4> QED BY <4>1, <4>2
    <3>2. CASE UNCHANGED updater
      BY <3>2
    <3>3. ASSUME NEW u \in Updaters, NEW d \in Dirs, VerifyAndStage(u, d) PROVE Upgrade
      <4>1. updater[u] = NoUpdater /\ updater' = [updater EXCEPT ![u] =
                 [pc |-> "stage", dir |-> d, manifest |-> file.manifest, own |-> binary]]
        BY <3>3 DEF VerifyAndStage
      <4>2. CASE u = "worker"
        <5>1. NoUpdater.pc = "idle"
          BY DEF NoUpdater
        <5> QED BY <4>1, <4>2, <5>1
      <4>3. CASE u # "worker"
        BY <2>0, <4>1, <4>3
      <4> QED BY <4>2, <4>3
    <3>4. ASSUME NEW u \in Updaters, RenameStage(u) PROVE Upgrade
      <4>1. updater[u].pc = "stage" /\ updater' = [updater EXCEPT ![u].pc = "install"]
        BY <3>4 DEF RenameStage
      <4>2. CASE u = "worker"
        BY <4>1, <4>2
      <4>3. CASE u # "worker"
        BY <2>0, <4>1, <4>3
      <4> QED BY <4>2, <4>3
    <3>5. ASSUME NEW u \in Updaters, \/ \E c \in Components : stageEntry(u, c)
                                     \/ Ends(u)
          PROVE  UNCHANGED updater \/ updater' = [updater EXCEPT ![u] = NoUpdater]
      BY <3>5 DEF stageEntry, Ends, WriteEntry, cleanup
    <3>6. (\E c \in Components : Build(c)) \/ Packager \/ WorkerRefuses => UNCHANGED updater
      BY DEF Build, Packager, StartPackager, hashFile, CopyComponent, CreateSignedPackage,
         PackagerFails, WorkerRefuses, clientVars
    <3>7. \A p \in packages : \A entries : Deliver(p, entries) => UNCHANGED updater
      BY DEF Deliver, clientVars
    <3>8. finishWorker => updater' = [updater EXCEPT !["worker"] = NoUpdater]
      BY DEF finishWorker
    <3>9. UNCHANGED vars => UNCHANGED updater
      BY DEF vars, clientVars
    <3> HIDE DEF Upgrade
    <3> QED BY <1>1, <2>0, <2>2, <3>1, <3>2, <3>3, <3>4, <3>5, <3>6, <3>7, <3>8, <3>9
         DEF Next, Client
  <2> QED BY <2>1, <2>2
<1> QED BY PTL, <1>1, PackagesInvariant DEF Spec, WorkerOnlyUpgrades

-----------------------------------------------------------------------------
(* Where the files of a client come from *)

(* What verifyPackageEntries and the worker accepted of a manifest.        *)
Accepted(u, m) ==
    m.architecture = Architecture /\ (u = "worker" => m.channel = "stable")

AcceptedInv == \A u \in Updaters : updater[u] # NoUpdater => Accepted(u, updater[u].manifest)

(* Every file is the one that came with the client or was signed with the  *)
(* release key for its architecture, and so is every version.              *)
Provenance ==
    /\ \A c \in Components :
           \/ target[c] = 0
           \/ \E p \in packages : /\ p.key = ReleaseKey /\ p.manifest.architecture = Architecture
                                  /\ <<c, target[c]>> \in p.manifest.files
    /\ \A v \in {installed, binary} :
           \/ v \in FirstVersions
           \/ \E p \in packages : /\ p.key = ReleaseKey /\ p.manifest.architecture = Architecture
                                  /\ p.manifest.release = v

(* The packager withdraws nothing, and an updater has one manifest.        *)
LEMMA ManifestStays ==
    ASSUME PackageInv, [Next]_vars
    PROVE  /\ packages \subseteq packages'
           /\ \A u \in Updaters :
                  \/ updater'[u] = NoUpdater
                  \/ updater[u] # NoUpdater /\ updater'[u].manifest = updater[u].manifest
                  \/ Accepted(u, updater'[u].manifest)
<1> DEFINE Same(u) == updater'[u] = NoUpdater \/ updater'[u] = updater[u]
           Stays == /\ packages \subseteq packages'
                    /\ \A u \in Updaters :
                          \/ updater'[u] = NoUpdater
                          \/ updater[u] # NoUpdater /\ updater'[u].manifest = updater[u].manifest
                          \/ Accepted(u, updater'[u].manifest)
<1>0. updater \in [Updaters -> {NoUpdater} \cup UpdaterRun]
  BY DEF PackageInv, PackageTypes
<1>1. packages \subseteq packages' /\ (\A u \in Updaters : Same(u)) => Stays
  OBVIOUS
<1>2. CASE packages \subseteq packages' /\ UNCHANGED updater
  BY <1>1, <1>2
<1>3. (\E c \in Components : Build(c)) \/ Packager =>
          packages \subseteq packages' /\ UNCHANGED updater
  BY DEF Build, Packager, StartPackager, hashFile, CopyComponent, CreateSignedPackage,
     PackagerFails, clientVars
<1>4. \A p \in packages : \A entries : Deliver(p, entries) => UNCHANGED <<packages, updater>>
  BY DEF Deliver, buildVars, clientVars
<1>5. UNCHANGED vars => UNCHANGED <<packages, updater>>
  BY DEF vars, buildVars, clientVars
<1>6. WorkerRefuses => UNCHANGED <<packages, updater>>
  BY DEF WorkerRefuses, buildVars
<1>7. CASE finishWorker
  <2>1. packages' = packages /\ updater' = [updater EXCEPT !["worker"] = NoUpdater]
    BY <1>7 DEF finishWorker, buildVars
  <2> QED BY <1>0, <1>1, <2>1
<1>8. ASSUME NEW u \in Updaters, Client(u) PROVE Stays
  <2>1. packages' = packages
    BY <1>8 DEF Client, VerifyAndStage, stageEntry, RenameStage, Ends, InstallStaged, buildVars
  <2>2. CASE UNCHANGED updater
    BY <1>1, <2>1, <2>2
  <2>3. CASE updater' = [updater EXCEPT ![u] = NoUpdater]
    BY <1>0, <1>1, <2>1, <2>3
  <2>4. CASE RenameStage(u)
    <3>1. updater[u].pc = "stage" /\ updater' = [updater EXCEPT ![u].pc = "install"]
      BY <2>4 DEF RenameStage
    <3>2. updater[u] # NoUpdater /\ updater[u] \in UpdaterRun
      BY <1>0, <3>1, RunKinds
    <3>3. updater'[u] = [updater[u] EXCEPT !.pc = "install"]
      BY <1>0, <3>1
    <3>4. updater'[u].manifest = updater[u].manifest
      BY <3>2, <3>3 DEF UpdaterRun
    <3>5. \A v \in Updaters : v # u => updater'[v] = updater[v]
      BY <1>0, <3>1
    <3> QED BY <2>1, <3>2, <3>4, <3>5
  <2>5. ASSUME NEW d \in Dirs, VerifyAndStage(u, d) PROVE Stays
    <3>1. /\ updater' = [updater EXCEPT ![u] =
                 [pc |-> "stage", dir |-> d, manifest |-> file.manifest, own |-> binary]]
          /\ verifyPackageEntries(file, currentVersion(u))
          /\ u = "worker" => file.manifest.channel = "stable"
      BY <2>5 DEF VerifyAndStage
    <3>2. updater'[u].manifest = file.manifest
      BY <1>0, <3>1
    <3>3. Accepted(u, file.manifest)
      BY <3>1 DEF verifyPackageEntries, validateManifest, Accepted
    <3>4. \A v \in Updaters : v # u => updater'[v] = updater[v]
      BY <1>0, <3>1
    <3> QED BY <2>1, <3>2, <3>3, <3>4
  <2>6. ASSUME NEW allow \in BOOLEAN, InstallStaged(u, allow) PROVE Stays
    <3>1. /\ updater' = [updater EXCEPT ![u] = InstalledRun(u)] /\ updater[u] # NoUpdater
          /\ InstalledRun(u) = NoUpdater \/ InstalledRun(u).manifest = updater[u].manifest
      BY <2>6, InstallEffect
    <3>2. updater'[u] = InstalledRun(u) /\ \A v \in Updaters : v # u => updater'[v] = updater[v]
      BY <1>0, <3>1
    <3> QED BY <2>1, <3>1, <3>2
  <2> QED BY <1>8, <2>2, <2>3, <2>4, <2>5, <2>6
       DEF Client, stageEntry, WriteEntry, cleanup, Ends
<1> HIDE DEF Stays
<1> QED BY <1>2, <1>3, <1>4, <1>5, <1>6, <1>7, <1>8 DEF Next, Stays

LEMMA AcceptedNext ==
    ASSUME PackageInv, AcceptedInv, [Next]_vars
    PROVE  AcceptedInv'
  BY ManifestStays DEF AcceptedInv

LEMMA AcceptedInit ==
    ASSUME Init
    PROVE  AcceptedInv
<1>1. \A u \in Updaters : updater[u] = NoUpdater
  BY DEF Init
<1> QED BY <1>1 DEF AcceptedInv

LEMMA ProvenanceNext ==
    ASSUME PackageInv, AcceptedInv, Provenance, [Next]_vars
    PROVE  Provenance'
<1>1. packages \subseteq packages'
  BY ManifestStays
<1>2. CASE UNCHANGED <<installed, binary, target>>
  BY <1>1, <1>2 DEF Provenance
<1>3. ASSUME NEW u \in Updaters, NEW allow \in BOOLEAN, InstallStaged(u, allow)
      PROVE  Provenance'
  <2>1. /\ updater[u] # NoUpdater /\ packages' = packages
        /\ installed' = updater[u].manifest.release /\ binary' \in {binary, installed'}
        /\ \A c \in Components :
               IF c \in Named(updater[u].manifest.files)
                 THEN <<c, target'[c]>> \in updater[u].manifest.files
                 ELSE target'[c] = target[c]
        /\ Released(updater[u].manifest)
    BY <1>3, InstallEffect
  <2>2. PICK p \in packages : p.key = ReleaseKey /\ p.manifest = updater[u].manifest
    BY <2>1 DEF Released
  <2>3. p.manifest.architecture = Architecture
    BY <2>1, <2>2 DEF AcceptedInv, Accepted
  <2>4. ASSUME NEW c \in Components
        PROVE  \/ target'[c] = 0
               \/ \E q \in packages : /\ q.key = ReleaseKey
                                      /\ q.manifest.architecture = Architecture
                                      /\ <<c, target'[c]>> \in q.manifest.files
    <3>1. CASE c \in Named(updater[u].manifest.files)
      BY <2>1, <2>2, <2>3, <3>1
    <3>2. CASE c \notin Named(updater[u].manifest.files)
      BY <2>1, <3>2 DEF Provenance
    <3> QED BY <3>1, <3>2
  <2>5. ASSUME NEW v \in {installed', binary'}
        PROVE  \/ v \in FirstVersions
               \/ \E q \in packages : /\ q.key = ReleaseKey
                                      /\ q.manifest.architecture = Architecture
                                      /\ q.manifest.release = v
    <3>1. CASE v = updater[u].manifest.release
      BY <2>2, <2>3, <3>1
    <3>2. CASE v = binary
      BY <3>2 DEF Provenance
    <3> QED BY <2>1, <3>1, <3>2
  <2> QED BY <2>1, <2>4, <2>5 DEF Provenance
<1>4. CASE ~\E u \in Updaters : \E allow \in BOOLEAN : InstallStaged(u, allow)
  BY <1>2, <1>4, OnlyInstallation
<1> QED BY <1>3, <1>4

(* Whatever is delivered, and whenever the package on disk is replaced,    *)
(* every installed file is the original one or was hashed into a manifest  *)
(* that the release key signed for this architecture, and the version that *)
(* the programs report is the first one or that of such a manifest.        *)
THEOREM FilesHaveProvenance == Spec => []Provenance
<1>1. Init => Provenance
  <2>1. ASSUME Init PROVE /\ \A c \in Components : target[c] = 0
                          /\ installed \in FirstVersions /\ binary \in FirstVersions
    BY <2>1 DEF Init
  <2> QED BY <2>1 DEF Provenance
<1>2. PackageInv /\ AcceptedInv /\ Provenance /\ [Next]_vars => AcceptedInv' /\ Provenance'
  BY AcceptedNext, ProvenanceNext
<1> QED BY PTL, <1>1, <1>2, AcceptedInit, PackagesInvariant DEF Spec

(* While the worker holds the lock, the installed release changes to a     *)
(* stable one that was signed for this architecture, and to no other: also *)
(* not by the updater that an administrator started in between.            *)
WorkerInstallsStable ==
    Staging(updater["worker"]) /\ installed' # installed =>
        \E p \in packages :
            /\ p.key = ReleaseKey /\ p.manifest.release = installed'
            /\ p.manifest.channel = "stable" /\ p.manifest.architecture = Architecture

(* The worker takes the channel from the manifest that it verified, and    *)
(* holds the update lock from there to the end of InstallStaged.           *)
THEOREM WorkerStaysStable == Spec => [][WorkerInstallsStable]_vars
<1>1. ASSUME PackageInv, AcceptedInv, [Next]_vars PROVE WorkerInstallsStable
  <2>1. ASSUME NEW u \in Updaters, NEW allow \in BOOLEAN, InstallStaged(u, allow)
        PROVE  WorkerInstallsStable
    <3>1. /\ installed' = updater[u].manifest.release /\ Released(updater[u].manifest)
          /\ u # "worker" => ~Staging(updater["worker"])
          /\ updater[u] # NoUpdater
      BY <1>1, <2>1, InstallEffect
    <3>2. PICK p \in packages : p.key = ReleaseKey /\ p.manifest = updater[u].manifest
      BY <3>1 DEF Released
    <3>3. Staging(updater["worker"]) =>
              /\ u = "worker" /\ p.manifest.channel = "stable"
              /\ p.manifest.architecture = Architecture
      BY <1>1, <3>1, <3>2 DEF AcceptedInv, Accepted
    <3> QED BY <3>1, <3>2, <3>3 DEF WorkerInstallsStable
  <2> QED BY <1>1, <2>1, OnlyInstallation DEF WorkerInstallsStable
<1>2. PackageInv /\ AcceptedInv /\ [Next]_vars => AcceptedInv'
  BY AcceptedNext
<1> QED BY PTL, <1>1, <1>2, AcceptedInit, PackagesInvariant DEF Spec
=============================================================================
