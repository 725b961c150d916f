------------------------- MODULE ProjectFilesProofs -------------------------
(***************************************************************************)
(* Proofs about ProjectFiles, for every set of initialisations, every list *)
(* of caches and every number of edits. The files are followed one by one: *)
(* who writes a file that has no content yet, what the writer has encoded  *)
(* for it, and what a launch that has not met such a file has made of it.  *)
(***************************************************************************)
EXTENDS ProjectFiles, SequenceTheorems, WellFoundedInduction, TLAPS

(* The inductive invariant.                                                *)

Layers == {"common.toml", "config.toml"}
Places == {"inspect", "mkdir", "common.toml", "config.toml", "check", "create",
           "write", "done", "failed"}
Creating == {"check", "create", "write"}

State(file) == file \in {Absent, Other, Regular(file.keys)}
FileTypes ==
  /\ files = [f \in File |-> files[f]]
  /\ \A f \in File : State(files[f])

InitTypes ==
  /\ at \in [Initializer -> Places]
  /\ index \in [Initializer -> 1..5]
  /\ \A p \in Initializer : at[p] \in Creating => index[p] \in 1..4
  /\ \A p \in Initializer : at[p] \notin Creating \cup {"done", "failed"} =>
       index[p] = 1
  /\ content \in [Initializer -> [File -> {<<>>} \cup {Encoded(f) : f \in Layers}]]
  /\ \A p \in Initializer, f \in Layers : content[p][f] \in {<<>>, Encoded(f)}

\* A file is written by the one that created it, and has no content before.
Writing(p, f) == at[p] = "write" /\ Resources[index[p]] = f
Writers ==
  /\ \A p \in Initializer, f \in File : Writing(p, f) => Hollow(f)
  /\ \A p, q \in Initializer, f \in File : Writing(p, f) /\ Writing(q, f) => p = q

\* What an init has passed exists.
Passed(p, i) == at[p] = "done" \/ (at[p] \in Creating /\ i < index[p])
Behind ==
  \A p \in Initializer, i \in 1..4 :
    Passed(p, i) => files[Resources[i]].kind = "file"

\* An init has nothing encoded only for a file that existed.
LooksPast(p, f) == at[p] \in Creating \/ (at[p] = "config.toml" /\ f = "common.toml")
Encodings ==
  \A p \in Initializer, f \in Layers :
    LooksPast(p, f) /\ content[p][f] = <<>> => files[f].kind = "file"
Texts ==
  \A p \in Initializer, f \in File : Writing(p, f) => Text(p, f) # <<>>
Gaps ==
  \A f \in File : Hollow(f) => \E p \in Initializer : Writing(p, f)

GapInv ==
  /\ FileTypes /\ InitTypes /\ Writers
  /\ ~faulty => Behind /\ Encodings /\ Texts /\ Gaps

\* A file without content means what no file would.
Meaning(f) == IF Hollow(f) THEN Absent ELSE files[f]

\* The base that was chosen is still right for config.toml as it is now.
Fits(base) ==
  \/ base = {} /\ Meaning("config.toml") = Other
  \/ /\ base = {GenerateDefaultConfig}
     /\ Meaning("config.toml") \in {Absent, Regular(Encoded("config.toml"))}
  \/ base = {PlainDefaults} /\ Settings(Meaning("config.toml"))

\* A layer over each configuration of a set.
Over(file, portable, S) == UNION {DecodeLayer(file, portable, c) : c \in S}

Layered(base) == Over(Meaning("common.toml"), TRUE, base)

Expectation ==
  expected = Contract(Meaning("common.toml"), Meaning("config.toml"))
Progress ==
  /\ launch \in {"locate common.toml", "read common.toml"} => Fits(resolved)
  /\ launch \in {"locate config.toml", "read config.toml"} =>
       \E base \in {{}, {GenerateDefaultConfig}, {PlainDefaults}} :
         Fits(base) /\ resolved = Layered(base)
  /\ launch = "resolved" => resolved = expected

LaunchInv == GapInv /\ Expectation /\ (~disturbed => Progress)

-----------------------------------------------------------------------------
(* The caches. Kept is a recursive function: that it is one, and what it   *)
(* keeps, follows by induction over sets of numbers.                       *)

LEMMA NumbersFollow ==
  ASSUME NEW S \in SUBSET Nat, 0 \in S, \A n \in S : n + 1 \in S
  PROVE  S = Nat
<1> DEFINE Less == {pair \in Nat \X Nat : pair[1] < pair[2]}
<1>1. IsWellFoundedOn(Less, Nat)
  BY NatLessThanWellFounded DEF OpToRel
<1> HIDE DEF Less
<1>2. ASSUME Nat \ S # {}
      PROVE  FALSE
  <2>1. PICK i \in Nat \ S : \A j \in Nat \ S : ~(<<j, i>> \in Less)
    <3>1. Nat \ S \subseteq Nat
      OBVIOUS
    <3>2. QED
      BY <1>1, <1>2, <3>1, WFMin
  <2>2. i # 0
    OBVIOUS
  <2>3. i - 1 \in Nat /\ i - 1 < i
    BY <2>2
  <2>4. <<i - 1, i>> \in Less
    BY <2>3 DEF Less
  <2>5. i - 1 \in S
    BY <2>1, <2>3, <2>4
  <2>6. QED
    BY <2>3, <2>5
<1>3. QED
  BY <1>2

Caches == {Available[i] : i \in DOMAIN Available}

\* What the n-th step of the selection makes of the caches kept before it.
Selected(kept, n) ==
  IF Plannable(Append(kept, Available[n])) THEN Append(kept, Available[n])
  ELSE kept
Selection(f, n) ==
  /\ f \in [0 .. n -> Seq(Caches)] /\ f[0] = <<>>
  /\ \A m \in 1 .. n : f[m] = Selected(f[m - 1], m)

LEMMA SelectedIsSequence ==
  ASSUME NEW kept \in Seq(Caches), NEW n \in 1 .. Len(Available)
  PROVE  Selected(kept, n) \in Seq(Caches)
<1>1. Available[n] \in Caches
  BY AvailableAssumption DEF Caches
<1>2. QED
  BY <1>1 DEF Selected

\* The selection can be carried to every cache of the list.
LEMMA SelectionExists ==
  \E f : Selection(f, Len(Available))
<1> DEFINE S == {n \in Nat : n <= Len(Available) => \E f : Selection(f, n)}
<1>1. 0 \in S
  <2>1. Selection([m \in 0 .. 0 |-> <<>>], 0)
    BY DEF Selection
  <2>2. QED
    BY <2>1
<1>2. ASSUME NEW n \in S
      PROVE  n + 1 \in S
  <2>1. CASE n + 1 <= Len(Available)
    <3>1. Len(Available) \in Nat /\ n \in Nat /\ n <= Len(Available)
      BY <2>1, AvailableAssumption
    <3>2. PICK f : Selection(f, n)
      BY <3>1
    <3> DEFINE g == [m \in 0 .. n + 1 |->
                       IF m = n + 1 THEN Selected(f[n], n + 1) ELSE f[m]]
    <3>3. f[n] \in Seq(Caches) /\ n + 1 \in 1 .. Len(Available)
      BY <2>1, <3>1, <3>2 DEF Selection
    <3>4. Selected(f[n], n + 1) \in Seq(Caches)
      BY <3>3, SelectedIsSequence
    <3>5. g \in [0 .. n + 1 -> Seq(Caches)]
      BY <3>1, <3>2, <3>4 DEF Selection
    <3>6. g[0] = <<>>
      BY <3>1, <3>2 DEF Selection
    <3>7. ASSUME NEW m \in 1 .. n + 1
          PROVE  g[m] = Selected(g[m - 1], m)
      <4>1. CASE m = n + 1
        <5>1. g[m] = Selected(f[n], n + 1) /\ g[m - 1] = f[n]
          BY <3>1, <4>1
        <5>2. QED
          BY <4>1, <5>1
      <4>2. CASE m # n + 1
        <5>1. m \in 1 .. n
          BY <3>1, <4>2
        <5>2. g[m] = f[m] /\ g[m - 1] = f[m - 1]
          BY <3>1, <4>2
        <5>3. QED
          BY <3>2, <5>1, <5>2 DEF Selection
      <4>3. QED
        BY <4>1, <4>2
    <3>8. Selection(g, n + 1)
      BY <3>5, <3>6, <3>7 DEF Selection
    <3>9. QED
      BY <2>1, <3>1, <3>8
  <2>2. QED
    BY <2>1
<1>3. S = Nat
  BY <1>1, <1>2, NumbersFollow
<1>4. Len(Available) \in Nat
  BY AvailableAssumption
<1>5. QED
  BY <1>3, <1>4

\* Kept is such a selection, of whatever values.
LEMMA KeptIsSelected ==
  /\ DOMAIN Kept = 0 .. Len(Available) /\ Kept[0] = <<>>
  /\ \A n \in 1 .. Len(Available) : Kept[n] = Selected(Kept[n - 1], n)
<1> DEFINE Body(f, n) == IF n = 0 THEN <<>> ELSE Selected(f[n - 1], n)
           Fixed(f) == f = [n \in 0 .. Len(Available) |-> Body(f, n)]
<1>1. Len(Available) \in Nat
  BY AvailableAssumption
<1>2. PICK f : Selection(f, Len(Available))
  BY SelectionExists
<1>3. Fixed(f)
  <2>1. DOMAIN f = 0 .. Len(Available) /\ f = [n \in DOMAIN f |-> f[n]]
    BY <1>2 DEF Selection
  <2>2. ASSUME NEW n \in 0 .. Len(Available)
        PROVE  f[n] = Body(f, n)
    <3>1. n # 0 => n \in 1 .. Len(Available)
      BY <1>1
    <3>2. QED
      BY <1>2, <3>1 DEF Selection
  <2>3. QED
    BY <2>1, <2>2
<1>4. Kept = CHOOSE g : Fixed(g)
  BY DEF Kept, Selected
<1>5. Fixed(Kept)
  BY <1>3, <1>4
<1> HIDE DEF Body
<1>6. DOMAIN Kept = 0 .. Len(Available)
  BY <1>5
<1>7. \A n \in 0 .. Len(Available) : Kept[n] = Body(Kept, n)
  BY <1>5
<1>8. Kept[0] = <<>>
  BY <1>1, <1>7 DEF Body
<1>9. ASSUME NEW n \in 1 .. Len(Available)
      PROVE  Kept[n] = Selected(Kept[n - 1], n)
  <2>1. n \in 0 .. Len(Available) /\ n # 0
    BY <1>1
  <2>2. QED
    BY <1>7, <2>1 DEF Body
<1>10. QED
  BY <1>6, <1>8, <1>9

\* The caches kept from the first n of the list are distinct members of it.
Sound(kept, n) ==
  /\ kept \in Seq(Caches)
  /\ \A i \in DOMAIN kept : \E j \in 1 .. n : kept[i] = Available[j]
  /\ \A i, j \in DOMAIN kept : kept[i] = kept[j] => i = j

LEMMA SelectedIsSound ==
  ASSUME NEW n \in Nat, n + 1 \in DOMAIN Available, NEW kept, Sound(kept, n)
  PROVE  Sound(Selected(kept, n + 1), n + 1)
<1> DEFINE longer == Append(kept, Available[n + 1])
<1>1. Available[n + 1] \in Caches /\ n + 1 \in 1 .. Len(Available)
  BY AvailableAssumption DEF Caches
<1>2. /\ longer \in Seq(Caches) /\ DOMAIN longer = 1 .. Len(kept) + 1
      /\ DOMAIN kept = 1 .. Len(kept) /\ Len(kept) \in Nat
      /\ \A i \in 1 .. Len(kept) : longer[i] = kept[i]
      /\ longer[Len(kept) + 1] = Available[n + 1]
  BY <1>1 DEF Sound
<1> HIDE DEF longer
<1>3. ASSUME NEW i \in DOMAIN longer
      PROVE  \E j \in 1 .. n + 1 : longer[i] = Available[j]
  <2>1. CASE i \in 1 .. Len(kept)
    <3>1. PICK j \in 1 .. n : kept[i] = Available[j]
      BY <1>2, <2>1 DEF Sound
    <3>2. QED
      BY <1>2, <2>1, <3>1
  <2>2. CASE i = Len(kept) + 1
    BY <1>2, <2>2
  <2>3. QED
    BY <1>2, <2>1, <2>2
<1>4. ASSUME NEW i \in 1 .. Len(kept)
      PROVE  kept[i] # Available[n + 1]
  <2>1. PICK j \in 1 .. n : kept[i] = Available[j]
    BY <1>2 DEF Sound
  <2>2. j \in DOMAIN Available /\ j # n + 1
    BY <1>1, AvailableAssumption
  <2>3. QED
    BY <2>1, <2>2, AvailableAssumption
<1>5. ASSUME NEW i \in DOMAIN longer, NEW j \in DOMAIN longer,
             longer[i] = longer[j]
      PROVE  i = j
  BY <1>2, <1>4, <1>5 DEF Sound
<1>6. Sound(longer, n + 1)
  BY <1>2, <1>3, <1>5 DEF Sound
<1>7. Sound(kept, n + 1)
  <2>1. 1 .. n \subseteq 1 .. n + 1
    OBVIOUS
  <2>2. QED
    BY <2>1 DEF Sound
<1>8. QED
  BY <1>6, <1>7 DEF Selected, longer

LEMMA HostCachesAreSound == Sound(HostCaches, Len(Available))
<1> DEFINE S == {n \in Nat : n <= Len(Available) => Sound(Kept[n], n)}
<1>0. Len(Available) \in Nat /\ DOMAIN Available = 1 .. Len(Available)
  BY AvailableAssumption
<1>1. 0 \in S
  <2>1. Sound(<<>>, 0)
    BY DEF Sound
  <2>2. QED
    BY <2>1, KeptIsSelected
<1>2. ASSUME NEW n \in S
      PROVE  n + 1 \in S
  <2>1. CASE n + 1 <= Len(Available)
    <3>1. n + 1 \in 1 .. Len(Available) /\ Sound(Kept[n], n) /\ n \in Nat
      BY <1>0, <2>1
    <3>2. Kept[n + 1] = Selected(Kept[n], n + 1)
      BY <3>1, KeptIsSelected
    <3>3. QED
      BY <1>0, <3>1, <3>2, SelectedIsSound
  <2>2. QED
    BY <2>1
<1>3. S = Nat
  BY <1>1, <1>2, NumbersFollow
<1>4. QED
  BY <1>0, <1>3 DEF HostCaches

-----------------------------------------------------------------------------
(* What the files mean.                                                    *)

PlainAndDefault == {PlainDefaults, GenerateDefaultConfig}

LEMMA Bases ==
  /\ PlainDefaults = [k \in Keys |-> PlainDefaults[k]]
  /\ GenerateDefaultConfig = [k \in Keys |-> GenerateDefaultConfig[k]]
  /\ PlainDefaults.image = "default" /\ PlainDefaults.mounts = "default"
  /\ PlainDefaults.caches = <<>>
  /\ GenerateDefaultConfig.image = "default"
  /\ GenerateDefaultConfig.mounts = "default"
  /\ GenerateDefaultConfig.caches = HostCaches
  /\ Validate(PlainDefaults) /\ Validate(GenerateDefaultConfig)
<1>1. Keys = {"image", "mounts", "caches"}
  BY DEF Keys, Portable, hostCommonKeys
<1>2. PlainDefaults = [k \in Keys |-> PlainDefaults[k]]
  BY <1>1 DEF PlainDefaults
<1>3. GenerateDefaultConfig = [k \in Keys |-> GenerateDefaultConfig[k]]
  BY <1>1 DEF GenerateDefaultConfig, PlainDefaults
<1>4. /\ PlainDefaults.image = "default" /\ PlainDefaults.mounts = "default"
      /\ PlainDefaults.caches = <<>>
      /\ GenerateDefaultConfig.image = "default"
      /\ GenerateDefaultConfig.mounts = "default"
      /\ GenerateDefaultConfig.caches = HostCaches
  BY DEF GenerateDefaultConfig, PlainDefaults
<1>5. "default" # ""
  OBVIOUS
<1>6. Validate(PlainDefaults)
  BY <1>4, <1>5 DEF Validate
<1>7. Validate(GenerateDefaultConfig)
  BY <1>4, <1>5, HostCachesAreSound DEF Validate, Sound
<1>8. QED
  BY <1>2, <1>3, <1>4, <1>6, <1>7

LEMMA EncodedCommon ==
  Encoded("common.toml") = [k \in {"image"} |-> "default"]
<1>1. Encoded("common.toml") = [k \in {"image"} |-> PlainDefaults[k]]
  BY DEF Encoded, EncodeCommon, Restricted, Portable
<1>2. QED
  BY <1>1, Bases

LEMMA EncodedLocal ==
  /\ Encoded("config.toml") =
       [k \in DOMAIN Encoded("config.toml") |-> GenerateDefaultConfig[k]]
  /\ DOMAIN Encoded("config.toml") =
       IF HostCaches = <<>> THEN {"mounts"} ELSE {"mounts", "caches"}
<1> DEFINE D == IF HostCaches = <<>> THEN {"mounts"} ELSE {"mounts", "caches"}
<1>1. Encoded("config.toml") = EncodeLocal(GenerateDefaultConfig)
  BY DEF Encoded
<1>2. Encoded("config.toml") = [k \in D |-> GenerateDefaultConfig[k]]
  BY <1>1, Bases DEF EncodeLocal, Restricted, hostCommonKeys
<1> HIDE DEF D
<1>3. DOMAIN Encoded("config.toml") = D
  BY <1>2
<1>4. QED
  BY <1>2, <1>3 DEF D

\* What init writes is never mistaken for a file without content.
LEMMA EncodedHasSettings ==
  ASSUME NEW f \in Layers
  PROVE  Encoded(f) # <<>> /\ Settings(Regular(Encoded(f)))
<1>1. DOMAIN Encoded(f) # {}
  BY EncodedCommon, EncodedLocal DEF Layers
<1>2. DOMAIN <<>> = {}
  OBVIOUS
<1>3. Encoded(f) # <<>>
  BY <1>1, <1>2
<1>4. QED
  BY <1>3 DEF Settings, Regular

\* The kinds of a file.
LEMMA Decoding ==
  ASSUME NEW portable \in BOOLEAN, NEW c
  PROVE  /\ DecodeLayer(Absent, portable, c) = {c}
         /\ DecodeLayer(Other, portable, c) = {}
         /\ \A keys : DecodeLayer(Regular(keys), portable, c) =
              IF /\ DOMAIN keys \subseteq Keys
                 /\ portable => DOMAIN keys \cap hostCommonKeys = {}
                 /\ Validate(ApplyOverlay(keys, c))
              THEN {ApplyOverlay(keys, c)} ELSE {}
<1>1. /\ Absent.kind = "absent" /\ Other.kind = "other"
      /\ \A keys : Regular(keys).kind = "file" /\ Regular(keys).keys = keys
  BY DEF Absent, Other, Regular
<1>2. "absent" # "other" /\ "file" \notin {"absent", "other"}
  OBVIOUS
<1>3. QED
  BY <1>1, <1>2 DEF DecodeLayer

\* The portable file of an init is the default over the default.
LEMMA CommonAddsNothing ==
  ASSUME NEW base \in PlainAndDefault
  PROVE  DecodeLayer(Regular(Encoded("common.toml")), TRUE, base) = {base}
<1> DEFINE keys == Encoded("common.toml")
<1>1. keys = [k \in {"image"} |-> "default"]
  BY EncodedCommon
<1> HIDE DEF keys
<1>2. /\ base = [k \in Keys |-> base[k]] /\ base.image = "default"
      /\ Validate(base)
  BY Bases DEF PlainAndDefault
<1>3. DOMAIN keys = {"image"} /\ keys["image"] = "default"
  BY <1>1
<1>4. Keys = {"image", "mounts", "caches"}
      /\ hostCommonKeys = {"mounts", "caches"}
  BY DEF Keys, Portable, hostCommonKeys
<1>5. \A k \in Keys : base[k] = IF k \in DOMAIN keys THEN keys[k] ELSE base[k]
  BY <1>2, <1>3
<1>6. ApplyOverlay(keys, base) = base
  BY <1>2, <1>5 DEF ApplyOverlay
<1>7. DecodeLayer(Regular(keys), TRUE, base) = {base}
  <2>1. DOMAIN keys \subseteq Keys /\ DOMAIN keys \cap hostCommonKeys = {}
    BY <1>3, <1>4
  <2>2. DecodeLayer(Regular(keys), TRUE, base) =
          IF /\ DOMAIN keys \subseteq Keys
             /\ TRUE => DOMAIN keys \cap hostCommonKeys = {}
             /\ Validate(ApplyOverlay(keys, base))
          THEN {ApplyOverlay(keys, base)} ELSE {}
    BY Decoding
  <2>3. QED
    BY <1>2, <1>6, <2>1, <2>2
<1>8. QED
  BY <1>7 DEF keys

\* A portable file leaves the lists of host paths as they are, and is valid
\* over both bases or over none.
LEMMA PortableOverBases ==
  ASSUME NEW keys, DOMAIN keys \subseteq Keys,
         DOMAIN keys \cap hostCommonKeys = {}, NEW base \in PlainAndDefault
  PROVE  LET d == ApplyOverlay(keys, base)
         IN  /\ d = [k \in Keys |-> d[k]]
             /\ d.mounts = "default" /\ d.caches = base.caches
             /\ d.image = IF "image" \in DOMAIN keys THEN keys["image"]
                          ELSE "default"
             /\ Validate(d) <=> d.image # ""
<1> DEFINE d == ApplyOverlay(keys, base)
<1>1. Keys = {"image", "mounts", "caches"}
      /\ hostCommonKeys = {"mounts", "caches"}
  BY DEF Keys, Portable, hostCommonKeys
<1>2. base = [k \in Keys |-> base[k]] /\ base.image = "default"
      /\ base.mounts = "default" /\ Validate(base)
  BY Bases DEF PlainAndDefault
<1>4. d = [k \in Keys |-> IF k \in DOMAIN keys THEN keys[k] ELSE base[k]]
  BY DEF ApplyOverlay
<1> HIDE DEF d
<1>5. \A k \in Keys : d[k] = IF k \in DOMAIN keys THEN keys[k] ELSE base[k]
  BY <1>4
<1>6. "mounts" \notin DOMAIN keys /\ "caches" \notin DOMAIN keys
  BY <1>1
<1>7. d.mounts = "default" /\ d.caches = base.caches
  BY <1>1, <1>2, <1>5, <1>6
<1>8. d.image = IF "image" \in DOMAIN keys THEN keys["image"] ELSE "default"
  BY <1>1, <1>2, <1>5
<1>9. d = [k \in Keys |-> d[k]]
  BY <1>4, <1>5
<1>10. Validate(d) <=> d.image # ""
  BY <1>2, <1>7 DEF Validate
<1>11. QED
  BY <1>7, <1>8, <1>9, <1>10 DEF d

LocalEncoding == Regular(Encoded("config.toml"))

\* The lists of an init over any portable file give what the portable file
\* gives over the defaults with the host's caches.
LEMMA LocalOverPortable ==
  ASSUME NEW base \in PlainAndDefault, NEW d, d = [k \in Keys |-> d[k]],
         d.mounts = "default", d.caches = base.caches, Validate(d)
  PROVE  DecodeLayer(LocalEncoding, FALSE, d) =
           {[d EXCEPT !.caches = HostCaches]}
<1> DEFINE keys == Encoded("config.toml")
           overlaid == ApplyOverlay(keys, d)
           complete == [d EXCEPT !.caches = HostCaches]
<1>1. Keys = {"image", "mounts", "caches"}
  BY DEF Keys, Portable, hostCommonKeys
<1>2. /\ DOMAIN keys = IF HostCaches = <<>> THEN {"mounts"}
                       ELSE {"mounts", "caches"}
      /\ \A k \in DOMAIN keys : keys[k] = GenerateDefaultConfig[k]
  BY EncodedLocal
<1> HIDE DEF keys
<1>3. base.caches \in {<<>>, HostCaches}
  BY Bases DEF PlainAndDefault
<1>4. overlaid = [k \in Keys |-> overlaid[k]]
  BY DEF ApplyOverlay
<1>5. \A k \in Keys :
        overlaid[k] = IF k \in DOMAIN keys THEN keys[k] ELSE d[k]
  BY DEF ApplyOverlay
<1> HIDE DEF overlaid
<1>6. overlaid.image = d.image /\ overlaid.mounts = "default"
  BY <1>1, <1>2, <1>5, Bases
<1>7. overlaid.caches = HostCaches
  BY <1>1, <1>2, <1>3, <1>5, Bases
<1>8. /\ complete = [k \in Keys |-> complete[k]] /\ complete.image = d.image
      /\ complete.mounts = "default" /\ complete.caches = HostCaches
  BY <1>1
<1> HIDE DEF complete
<1>9. overlaid = complete
  BY <1>1, <1>4, <1>6, <1>7, <1>8
<1>10. Validate(overlaid)
  BY <1>6, <1>7, HostCachesAreSound DEF Validate, Sound
<1>11. DOMAIN keys \subseteq Keys
  BY <1>1, <1>2
<1>12. DecodeLayer(Regular(keys), FALSE, d) =
         IF /\ DOMAIN keys \subseteq Keys
            /\ FALSE => DOMAIN keys \cap hostCommonKeys = {}
            /\ Validate(overlaid)
         THEN {overlaid} ELSE {}
  BY Decoding DEF overlaid
<1>13. QED
  BY <1>9, <1>10, <1>11, <1>12 DEF LocalEncoding, keys, complete

LEMMA LocalAddsNothing ==
  ASSUME NEW common, State(common)
  PROVE  /\ \A d \in DecodeLayer(common, TRUE, GenerateDefaultConfig) :
              DecodeLayer(LocalEncoding, FALSE, d) = {d}
         /\ Over(LocalEncoding, FALSE, DecodeLayer(common, TRUE, PlainDefaults))
              = DecodeLayer(common, TRUE, GenerateDefaultConfig)
<1> DEFINE Lists(d) == DecodeLayer(LocalEncoding, FALSE, d)
           Plain == DecodeLayer(common, TRUE, PlainDefaults)
           Full == DecodeLayer(common, TRUE, GenerateDefaultConfig)
           keys == common.keys
<1>1. Lists(PlainDefaults) = {GenerateDefaultConfig}
  BY LocalOverPortable, Bases DEF PlainAndDefault, GenerateDefaultConfig
<1>2. Lists(GenerateDefaultConfig) = {GenerateDefaultConfig}
  <2>1. [GenerateDefaultConfig EXCEPT !.caches = HostCaches]
          = GenerateDefaultConfig
    BY DEF GenerateDefaultConfig, PlainDefaults
  <2>2. QED
    BY <2>1, LocalOverPortable, Bases DEF PlainAndDefault
<1>3. CASE common = Absent
  <2>1. Plain = {PlainDefaults} /\ Full = {GenerateDefaultConfig}
    BY <1>3, Decoding
  <2> HIDE DEF Plain, Full, Lists
  <2>2. /\ \A d \in Full : Lists(d) = {d}
        /\ UNION {Lists(d) : d \in Plain} = Full
    BY <1>1, <1>2, <2>1
  <2>3. QED
    BY <2>2 DEF Over, Lists, Plain, Full
<1>4. CASE common = Other
  BY <1>4, Decoding DEF Over
<1>5. CASE /\ common = Regular(keys)
           /\ DOMAIN keys \subseteq Keys /\ DOMAIN keys \cap hostCommonKeys = {}
  <2> DEFINE p == ApplyOverlay(keys, PlainDefaults)
             g == ApplyOverlay(keys, GenerateDefaultConfig)
  <2>1. /\ p = [k \in Keys |-> p[k]] /\ p.mounts = "default"
        /\ p.caches = PlainDefaults.caches /\ (Validate(p) <=> p.image # "")
        /\ g = [k \in Keys |-> g[k]] /\ g.mounts = "default"
        /\ g.caches = HostCaches /\ (Validate(g) <=> g.image # "")
        /\ g.image = p.image
    BY <1>5, PortableOverBases, Bases DEF PlainAndDefault
  <2>2. /\ Plain = IF Validate(p) THEN {p} ELSE {}
        /\ Full = IF Validate(g) THEN {g} ELSE {}
    BY <1>5, Decoding
  <2> HIDE DEF p, g, Plain, Full
  <2>3. [p EXCEPT !.caches = HostCaches] = g
        /\ [g EXCEPT !.caches = HostCaches] = g
    <3>1. Keys = {"image", "mounts", "caches"}
      BY DEF Keys, Portable, hostCommonKeys
    <3>2. QED
      BY <2>1, <3>1
  <2>4. Validate(p) => Lists(p) = {g}
    BY <2>1, <2>3, LocalOverPortable DEF PlainAndDefault
  <2>5. Validate(g) => Lists(g) = {g}
    BY <2>1, <2>3, LocalOverPortable, Bases DEF PlainAndDefault
  <2> HIDE DEF Lists
  <2>6. /\ \A d \in Full : Lists(d) = {d}
        /\ UNION {Lists(d) : d \in Plain} = Full
    BY <2>1, <2>2, <2>4, <2>5
  <2>7. QED
    BY <2>6 DEF Over, Lists, Plain, Full
<1>6. CASE /\ common = Regular(keys)
           /\ ~(/\ DOMAIN keys \subseteq Keys
                /\ DOMAIN keys \cap hostCommonKeys = {})
  <2>1. Plain = {} /\ Full = {}
    BY <1>6, Decoding
  <2>2. QED
    BY <2>1 DEF Over
<1>7. QED
  BY <1>3, <1>4, <1>5, <1>6 DEF State

\* A file an init completes changes nothing of what the files mean together.
LEMMA ContractIsLayered ==
  ASSUME NEW common, NEW local
  PROVE  Contract(common, local) =
           IF local.kind = "other" THEN {}
           ELSE Over(local, FALSE,
                  DecodeLayer(common, TRUE, IF local.kind = "absent"
                                            THEN GenerateDefaultConfig
                                            ELSE PlainDefaults))
BY DEF Contract, Over

LEMMA CommonKeepsContract ==
  ASSUME NEW local
  PROVE  Contract(Regular(Encoded("common.toml")), local)
           = Contract(Absent, local)
<1>1. ASSUME NEW base \in PlainAndDefault
      PROVE  DecodeLayer(Regular(Encoded("common.toml")), TRUE, base)
               = DecodeLayer(Absent, TRUE, base)
  BY CommonAddsNothing, Decoding
<1>2. QED
  BY <1>1, ContractIsLayered DEF PlainAndDefault

LEMMA AbsentAddsNothing ==
  ASSUME NEW S, NEW portable \in BOOLEAN
  PROVE  Over(Absent, portable, S) = S
<1> DEFINE None(d) == DecodeLayer(Absent, portable, d)
<1>1. \A d : None(d) = {d}
  BY Decoding
<1>2. Over(Absent, portable, S) = UNION {None(d) : d \in S}
  BY DEF Over
<1> HIDE DEF None
<1>3. ASSUME NEW x
      PROVE  x \in UNION {None(d) : d \in S} <=> x \in S
  BY <1>1
<1>4. QED
  BY <1>2, <1>3

LEMMA LocalKeepsContract ==
  ASSUME NEW common, State(common)
  PROVE  Contract(common, LocalEncoding) = Contract(common, Absent)
<1>1. LocalEncoding.kind = "file" /\ Absent.kind = "absent"
  BY DEF LocalEncoding, Regular, Absent
<1>2. Contract(common, LocalEncoding)
        = Over(LocalEncoding, FALSE, DecodeLayer(common, TRUE, PlainDefaults))
  BY <1>1, ContractIsLayered
<1>3. Contract(common, Absent)
        = Over(Absent, FALSE, DecodeLayer(common, TRUE, GenerateDefaultConfig))
  BY <1>1, ContractIsLayered
<1>4. Over(LocalEncoding, FALSE, DecodeLayer(common, TRUE, PlainDefaults))
        = DecodeLayer(common, TRUE, GenerateDefaultConfig)
  BY LocalAddsNothing
<1>5. Over(Absent, FALSE, DecodeLayer(common, TRUE, GenerateDefaultConfig))
        = DecodeLayer(common, TRUE, GenerateDefaultConfig)
  BY AbsentAddsNothing
<1>6. QED
  BY <1>2, <1>3, <1>4, <1>5

-----------------------------------------------------------------------------
(* The files and who writes them.                                          *)

LEMMA FileNames ==
  /\ File = {"Dockerfile.sample", "common.toml", "config.toml", ".gitignore"}
  /\ Layers \subseteq File /\ Len(Resources) = 4
  /\ \A i \in 1 .. 4 : Resources[i] \in File
  /\ \A f \in File : \E i \in 1 .. 4 : Resources[i] = f
  /\ \A i, j \in 1 .. 4 : Resources[i] = Resources[j] => i = j
<1>1. /\ DOMAIN Resources = 1 .. 4 /\ Len(Resources) = 4
      /\ Resources[1] = "Dockerfile.sample" /\ Resources[2] = "common.toml"
      /\ Resources[3] = "config.toml" /\ Resources[4] = ".gitignore"
  BY DEF Resources
<1>2. 1 .. 4 = {1, 2, 3, 4}
  OBVIOUS
<1>3. \A f : f \in File <=> \E i \in 1 .. 4 : f = Resources[i]
  BY <1>1 DEF File
<1>4. \A f : f \in File <=>
        f \in {Resources[1], Resources[2], Resources[3], Resources[4]}
  BY <1>2, <1>3
<1>5. File = {"Dockerfile.sample", "common.toml", "config.toml", ".gitignore"}
  BY <1>1, <1>4
<1>6. \A i, j \in 1 .. 4 : Resources[i] = Resources[j] => i = j
  BY <1>1, <1>2
<1>7. /\ \A i \in 1 .. 4 : Resources[i] \in File
      /\ \A f \in File : \E i \in 1 .. 4 : Resources[i] = f
  BY <1>3
<1>8. Layers \subseteq File
  BY <1>5 DEF Layers
<1>9. QED
  BY <1>1, <1>5, <1>6, <1>7, <1>8

\* A file that exists, and one without content.
LEMMA Kinds ==
  /\ Absent.kind = "absent" /\ Other.kind = "other"
  /\ \A keys : Regular(keys).kind = "file" /\ Regular(keys).keys = keys
  /\ \A f : Settings(f) => f.kind = "file" /\ f # Regular(<<>>)
  /\ Absent # Regular(<<>>) /\ Other # Regular(<<>>) /\ Absent # Other
<1>1. /\ Absent.kind = "absent" /\ Other.kind = "other"
      /\ \A keys : Regular(keys).kind = "file" /\ Regular(keys).keys = keys
  BY DEF Absent, Other, Regular
<1>2. \A f : Settings(f) => f.kind = "file" /\ f # Regular(<<>>)
  BY <1>1 DEF Settings
<1>3. QED
  BY <1>1, <1>2

LEMMA GapInit == ProjectInit => GapInv
<1> SUFFICES ASSUME ProjectInit
             PROVE  GapInv
  OBVIOUS
<1>2. /\ DOMAIN files = File /\ files = [f \in File |-> files[f]]
      /\ \A f \in File : files[f] \in {Absent, Other} \/ Settings(files[f])
  <2>1. CASE files = [f \in File |-> Other]
    BY <2>1
  <2>2. CASE \E checkout \in Checkouts :
               files = [f \in File |-> IF f \in DOMAIN checkout
                                       THEN checkout[f] ELSE Absent]
    BY <2>2, UsersFilesAssumption
  <2>3. QED
    BY <2>1, <2>2 DEF ProjectInit
<1>3. FileTypes
  BY <1>2 DEF FileTypes, State, Settings
<1>4. InitTypes
  <2>1. /\ at = [p \in Initializer |-> "inspect"]
        /\ index = [p \in Initializer |-> 1]
        /\ content = [p \in Initializer |-> [f \in File |-> <<>>]]
    BY DEF ProjectInit
  <2>2. at \in [Initializer -> Places]
    BY <2>1 DEF Places
  <2>3. content \in [Initializer ->
                       [File -> {<<>>} \cup {Encoded(f) : f \in Layers}]]
    BY <2>1
  <2>4. \A p \in Initializer, f \in Layers : content[p][f] = <<>>
    BY <2>1, FileNames
  <2>5. QED
    BY <2>1, <2>2, <2>3, <2>4 DEF InitTypes, Creating
<1>5. \A f \in File : ~Hollow(f)
  BY <1>2, Kinds DEF Hollow
<1>6. \A p \in Initializer : at[p] = "inspect"
  BY DEF ProjectInit
<1>7. Writers /\ Texts
  BY <1>6 DEF Writers, Texts, Writing
<1>8. Behind /\ Encodings /\ Gaps
  BY <1>5, <1>6 DEF Behind, Passed, Encodings, LooksPast, Gaps, Creating
<1>9. QED
  BY <1>3, <1>4, <1>7, <1>8 DEF GapInv

\* The text an init writes is empty only if it has encoded nothing.
LEMMA TextIsContent ==
  ASSUME NEW p, NEW f \in File
  PROVE  Text(p, f) = <<>> => f \in Layers /\ content[p][f] = <<>>
<1>1. DOMAIN [text |-> f] = {"text"} /\ DOMAIN <<>> = {}
  OBVIOUS
<1>2. [text |-> f] # <<>>
  BY <1>1
<1>3. QED
  BY <1>2 DEF Text, Layers

\* An init moves on without touching a file: it looks, it finds a file absent,
\* or it ends.
Looks(p, next) ==
  /\ UNCHANGED <<files, index, content>> /\ at' = [at EXCEPT ![p] = next]
  /\ \/ at[p] = "inspect" /\ next \in {"mkdir", "common.toml"}
     \/ at[p] = "mkdir" /\ next = "common.toml"
     \/ at[p] = "check" /\ next = "create"
     \/ next = "failed" /\ faulty'
  /\ faulty => faulty'

LEMMA LooksKeepsGaps ==
  ASSUME GapInv, NEW p \in Initializer, NEW next, Looks(p, next)
  PROVE  GapInv'
<1>1. /\ files' = files /\ index' = index /\ content' = content
      /\ \A q \in Initializer : at'[q] = IF q = p THEN next ELSE at[q]
      /\ next \in Places
      /\ at \in [Initializer -> Places] /\ at' \in [Initializer -> Places]
  BY DEF GapInv, InitTypes, Looks, Places
<1>2. \A f : Hollow(f)' <=> Hollow(f)
  BY <1>1 DEF Hollow
<1>3. FileTypes'
  BY <1>1 DEF GapInv, FileTypes
<1>4. InitTypes'
  BY <1>1 DEF GapInv, InitTypes, Looks, Creating
<1>5. next # "write" /\ next # "done"
  BY DEF Looks
<1>6. \A q \in Initializer, f \in File : Writing(q, f)' => Writing(q, f)
  BY <1>1, <1>5 DEF Writing
<1>7. Writers'
  BY <1>2, <1>6 DEF GapInv, Writers
<1>8. ASSUME ~faulty'
      PROVE  (Behind /\ Encodings /\ Texts /\ Gaps)'
  <2>1. Behind /\ Encodings /\ Texts /\ Gaps
    BY <1>8 DEF GapInv, Looks
  <2>2. \A q \in Initializer, i \in 1 .. 4 : Passed(q, i)' => Passed(q, i)
    BY <1>1, <1>5, <1>8 DEF Passed, Looks, Creating
  <2>3. Behind'
    BY <1>1, <2>1, <2>2 DEF Behind
  <2>4. \A q \in Initializer, f \in Layers : LooksPast(q, f)' => LooksPast(q, f)
    BY <1>1, <1>8 DEF LooksPast, Looks, Creating
  <2>5. Encodings'
    BY <1>1, <2>1, <2>4 DEF Encodings
  <2>6. \A q, f : Text(q, f)' = Text(q, f)
    BY <1>1 DEF Text
  <2>7. Texts'
    BY <1>6, <2>1, <2>6 DEF Texts
  <2>8. \A q \in Initializer, f \in File : Writing(q, f) => Writing(q, f)'
    BY <1>1, <1>8 DEF Writing, Looks
  <2>9. Gaps'
    BY <1>2, <2>1, <2>8 DEF Gaps
  <2>10. QED
    BY <2>3, <2>5, <2>7, <2>9
<1>9. QED
  BY <1>3, <1>4, <1>7, <1>8 DEF GapInv

LEMMA EncodeKeepsGaps ==
  ASSUME GapInv, NEW p \in Initializer, EncodeIfMissing(p)
  PROVE  GapInv'
<1>1. PICK name \in Layers :
        /\ at[p] = name /\ UNCHANGED <<files, index>>
        /\ IF files[name].kind = "other"
             THEN InitFails(p) /\ UNCHANGED content
             ELSE /\ content' = [content EXCEPT ![p][name] =
                                   IF files[name].kind = "absent"
                                   THEN Encoded(name) ELSE <<>>]
                  /\ Step(p, AfterEncoding(name)) /\ UNCHANGED faulty
  BY DEF EncodeIfMissing, Layers, fileVars
<1>2. CASE files[name].kind = "other"
  <2>1. Looks(p, "failed")
    BY <1>1, <1>2 DEF Looks, InitFails, Step
  <2>2. QED
    BY <2>1, LooksKeepsGaps
<1>3. CASE files[name].kind # "other"
  <2> DEFINE new == IF files[name].kind = "absent" THEN Encoded(name) ELSE <<>>
             next == AfterEncoding(name)
  <2>1. /\ files' = files /\ index' = index /\ faulty' = faulty
        /\ at' = [at EXCEPT ![p] = next]
        /\ content' = [content EXCEPT ![p][name] = new]
    BY <1>1, <1>3 DEF Step
  <2>2. \/ name = "common.toml" /\ next = "config.toml"
        \/ name = "config.toml" /\ next = "check"
    BY <1>1 DEF AfterEncoding, Layers
  <2>3. at \in [Initializer -> Places] /\ next \in Places
    BY <2>2 DEF GapInv, InitTypes, Places
  <2>4. \A q \in Initializer : at'[q] = IF q = p THEN next ELSE at[q]
    BY <2>1, <2>3
  <2>5. new \in {<<>>, Encoded(name)}
    OBVIOUS
  <2> HIDE DEF new, next
  <2>6. /\ content' \in [Initializer ->
                           [File -> {<<>>} \cup {Encoded(f) : f \in Layers}]]
        /\ \A q \in Initializer, f \in Layers :
             content'[q][f] = IF q = p /\ f = name THEN new ELSE content[q][f]
    BY <2>1, <2>5, FileNames DEF GapInv, InitTypes
  <2>7. \A f : Hollow(f)' <=> Hollow(f)
    BY <2>1 DEF Hollow
  <2>8. FileTypes'
    BY <2>1 DEF GapInv, FileTypes
  <2>9. at[p] \in Layers /\ index[p] = 1 /\ next \in {"config.toml", "check"}
    BY <1>1, <2>2 DEF GapInv, InitTypes, Layers, Creating
  <2>10. InitTypes'
    <3>1. \A q \in Initializer, f \in Layers :
            content'[q][f] \in {<<>>, Encoded(f)}
      BY <2>5, <2>6 DEF GapInv, InitTypes
    <3>2. at' \in [Initializer -> Places] /\ index' \in [Initializer -> 1 .. 5]
      BY <2>1, <2>3 DEF GapInv, InitTypes
    <3>3. /\ \A q \in Initializer : at'[q] \in Creating => index'[q] \in 1 .. 4
          /\ \A q \in Initializer :
               at'[q] \notin Creating \cup {"done", "failed"} => index'[q] = 1
      BY <2>1, <2>4, <2>9 DEF GapInv, InitTypes
    <3>4. QED
      BY <2>6, <3>1, <3>2, <3>3 DEF InitTypes
  <2>11. \A q \in Initializer, f \in File : Writing(q, f)' <=> Writing(q, f)
    BY <2>1, <2>4, <2>9 DEF Writing, Layers
  <2>12. Writers'
    BY <2>7, <2>11 DEF GapInv, Writers
  <2>13. ASSUME ~faulty'
         PROVE  (Behind /\ Encodings /\ Texts /\ Gaps)'
    <3>1. Behind /\ Encodings /\ Texts /\ Gaps
      BY <2>1, <2>13 DEF GapInv
    <3>2. \A q \in Initializer, i \in 1 .. 4 : Passed(q, i)' => Passed(q, i)
      BY <2>1, <2>4, <2>9 DEF Passed, Creating
    <3>3. Behind'
      BY <2>1, <3>1, <3>2 DEF Behind
    <3>4. ASSUME NEW q \in Initializer, NEW f \in Layers, LooksPast(q, f)',
                 content'[q][f] = <<>>
          PROVE  files'[f].kind = "file"
      <4>1. CASE q = p /\ f = name
        <5>1. files[name].kind # "absent"
          BY <2>6, <3>4, <4>1, EncodedHasSettings DEF new
        <5>2. files[name] \in {Absent, Other, Regular(files[name].keys)}
          BY FileNames DEF GapInv, FileTypes, State
        <5>3. QED
          BY <1>3, <2>1, <4>1, <5>1, <5>2, Kinds
      <4>2. CASE ~(q = p /\ f = name)
        <5>1. LooksPast(q, f)
          BY <1>1, <2>2, <2>4, <3>4, <4>2 DEF LooksPast, Creating, Layers
        <5>2. QED
          BY <2>1, <2>6, <3>1, <3>4, <4>2, <5>1 DEF Encodings
      <4>3. QED
        BY <4>1, <4>2
    <3>5. Encodings'
      BY <3>4 DEF Encodings
    <3>6. ASSUME NEW q \in Initializer, NEW f \in File, Writing(q, f)
          PROVE  Text(q, f)' = Text(q, f)
      <4>1. q # p
        BY <2>9, <3>6 DEF Writing, Layers
      <4>2. QED
        BY <2>6, <4>1 DEF Text, Layers
    <3>7. Texts'
      BY <2>11, <3>1, <3>6 DEF Texts
    <3>8. Gaps'
      BY <2>7, <2>11, <3>1 DEF Gaps
    <3>9. QED
      BY <3>3, <3>5, <3>7, <3>8
  <2>14. QED
    BY <2>8, <2>10, <2>12, <2>13 DEF GapInv
<1>4. QED
  BY <1>2, <1>3

\* The next resource is looked at when one is found or written.
Advances(p) ==
  /\ at[p] \in Creating /\ index' = [index EXCEPT ![p] = @ + 1]
  /\ at' = [at EXCEPT ![p] = IF index[p] = 4 THEN "done" ELSE "check"]

LEMMA AdvanceMoves ==
  ASSUME GapInv, NEW p \in Initializer, Advances(p), UNCHANGED content
  PROVE  /\ InitTypes' /\ index[p] \in 1 .. 4
         /\ \A q \in Initializer, f \in File :
              Writing(q, f)' <=> q # p /\ Writing(q, f)
         /\ \A q \in Initializer, i \in 1 .. 4 :
              Passed(q, i)' => Passed(q, i) \/ (q = p /\ i = index[p])
         /\ \A q \in Initializer, f \in Layers :
              LooksPast(q, f)' => LooksPast(q, f)
         /\ \A q, f : Text(q, f)' = Text(q, f)
<1> DEFINE next == IF index[p] = 4 THEN "done" ELSE "check"
<1>1. /\ at \in [Initializer -> Places] /\ index \in [Initializer -> 1 .. 5]
      /\ index[p] \in 1 .. 4 /\ content' = content
      /\ at[p] \in {"check", "create", "write"}
  BY DEF GapInv, InitTypes, Advances, Creating
<1>2. next \in Places
  BY DEF Places
<1>3. \A q \in Initializer :
        /\ at'[q] = IF q = p THEN next ELSE at[q]
        /\ index'[q] = IF q = p THEN index[p] + 1 ELSE index[q]
  BY <1>1 DEF Advances
<1>4. at' \in [Initializer -> Places] /\ index' \in [Initializer -> 1 .. 5]
  BY <1>1, <1>2 DEF Advances
<1>5. InitTypes'
  <2>1. \A q \in Initializer : at'[q] \in Creating => index'[q] \in 1 .. 4
    BY <1>1, <1>3 DEF GapInv, InitTypes, Creating
  <2>2. \A q \in Initializer :
          at'[q] \notin Creating \cup {"done", "failed"} => index'[q] = 1
    BY <1>1, <1>3 DEF GapInv, InitTypes, Creating
  <2>3. QED
    BY <1>1, <1>4, <2>1, <2>2 DEF GapInv, InitTypes
<1>6. next # "write"
  OBVIOUS
<1> HIDE DEF next
<1>7. ASSUME NEW q \in Initializer, NEW f \in File
      PROVE  Writing(q, f)' <=> q # p /\ Writing(q, f)
  BY <1>3, <1>6 DEF Writing
<1>8. ASSUME NEW q \in Initializer, NEW i \in 1 .. 4, Passed(q, i)'
      PROVE  Passed(q, i) \/ (q = p /\ i = index[p])
  <2>1. CASE q # p
    BY <1>3, <1>8, <2>1 DEF Passed
  <2>2. CASE q = p
    <3>1. next = "done" => index[p] = 4
      BY DEF next
    <3>2. i <= index[p]
      BY <1>1, <1>3, <1>8, <2>2, <3>1 DEF Passed
    <3>3. QED
      BY <1>1, <2>2, <3>2 DEF Passed, Creating
  <2>3. QED
    BY <2>1, <2>2
<1>9. ASSUME NEW q \in Initializer, NEW f \in Layers, LooksPast(q, f)'
      PROVE  LooksPast(q, f)
  BY <1>1, <1>3, <1>9 DEF LooksPast, Creating
<1>10. \A q, f : Text(q, f)' = Text(q, f)
  BY <1>1 DEF Text
<1>11. QED
  BY <1>1, <1>5, <1>7, <1>8, <1>9, <1>10

LEMMA CheckKeepsGaps ==
  ASSUME GapInv, NEW p \in Initializer, CheckExisting(p)
  PROVE  GapInv'
<1> DEFINE f0 == Resources[index[p]]
<1>1. at[p] = "check" /\ index[p] \in 1 .. 4 /\ UNCHANGED <<files, content>>
      /\ f0 \in File
  BY FileNames DEF GapInv, InitTypes, CheckExisting, Creating, fileVars
<1>2. files[f0].kind \in {"absent", "file", "other"}
  BY <1>1, Kinds DEF GapInv, FileTypes, State
<1>3. CASE files[f0].kind = "absent"
  <2>1. Looks(p, "create")
    BY <1>1, <1>3 DEF CheckExisting, Looks, Step
  <2>2. QED
    BY <2>1, LooksKeepsGaps
<1>4. CASE files[f0].kind = "other"
  <2>1. Looks(p, "failed")
    BY <1>1, <1>4 DEF CheckExisting, Looks, Step, InitFails
  <2>2. QED
    BY <2>1, LooksKeepsGaps
<1>5. CASE files[f0].kind = "file"
  <2>1. Advances(p) /\ faulty' = faulty
    BY <1>1, <1>5, FileNames
       DEF CheckExisting, NextResource, Advances, Step, Creating
  <2>2. \A f : Hollow(f)' <=> Hollow(f)
    BY <1>1 DEF Hollow
  <2>3. FileTypes'
    BY <1>1 DEF GapInv, FileTypes
  <2>4. \A q \in Initializer, f \in File : Writing(q, f)' <=> Writing(q, f)
    BY <1>1, <2>1, AdvanceMoves DEF Writing
  <2>5. Writers'
    BY <2>2, <2>4 DEF GapInv, Writers
  <2>6. ASSUME ~faulty'
        PROVE  (Behind /\ Encodings /\ Texts /\ Gaps)'
    <3>1. Behind /\ Encodings /\ Texts /\ Gaps
      BY <2>1, <2>6 DEF GapInv
    <3>2. Behind'
      BY <1>1, <1>5, <2>1, <3>1, AdvanceMoves DEF Behind
    <3>3. Encodings'
      BY <1>1, <2>1, <3>1, AdvanceMoves DEF Encodings
    <3>4. Texts'
      BY <1>1, <2>1, <2>4, <3>1, AdvanceMoves DEF Texts
    <3>5. Gaps'
      BY <2>2, <2>4, <3>1 DEF Gaps
    <3>6. QED
      BY <3>2, <3>3, <3>4, <3>5
  <2>7. QED
    BY <1>1, <2>1, <2>3, <2>5, <2>6, AdvanceMoves DEF GapInv
<1>6. QED
  BY <1>2, <1>3, <1>4, <1>5

LEMMA CreateKeepsGaps ==
  ASSUME GapInv, NEW p \in Initializer, CreateExclusively(p)
  PROVE  GapInv'
<1> DEFINE f0 == Resources[index[p]]
<1>1. /\ at[p] = "create" /\ index[p] \in 1 .. 4 /\ f0 \in File
      /\ index' = index /\ content' = content
  BY FileNames DEF GapInv, InitTypes, CreateExclusively, Creating
<1>2. CASE files[f0].kind # "absent"
  <2>1. Looks(p, "failed")
    BY <1>1, <1>2 DEF CreateExclusively, Looks, Step, InitFails
  <2>2. QED
    BY <2>1, LooksKeepsGaps
<1>3. CASE files[f0].kind = "absent"
  <2>1. /\ files' = [files EXCEPT ![f0] = Regular(<<>>)]
        /\ at' = [at EXCEPT ![p] = "write"] /\ faulty' = faulty
    BY <1>3 DEF CreateExclusively, Step
  <2>2. /\ files' = [f \in File |-> files'[f]]
        /\ \A f \in File :
             files'[f] = IF f = f0 THEN Regular(<<>>) ELSE files[f]
    BY <2>1 DEF GapInv, FileTypes
  <2>3. FileTypes'
    BY <2>2, Kinds DEF GapInv, FileTypes, State
  <2>4. \A q \in Initializer : at'[q] = IF q = p THEN "write" ELSE at[q]
    BY <2>1 DEF GapInv, InitTypes
  <2>5. InitTypes'
    <3>1. at' \in [Initializer -> Places]
      BY <2>1 DEF GapInv, InitTypes, Places
    <3>2. QED
      BY <1>1, <2>4, <3>1 DEF GapInv, InitTypes, Creating
  <2>6. \A q \in Initializer, f \in File :
          Writing(q, f)' <=> Writing(q, f) \/ (q = p /\ f = f0)
    BY <1>1, <2>4 DEF Writing
  <2>7. \A f \in File : Hollow(f)' <=> Hollow(f) \/ f = f0
    BY <2>2 DEF Hollow
  <2>8. ~Hollow(f0)
    BY <1>3, Kinds DEF Hollow
  <2>9. Writers'
    BY <1>1, <2>6, <2>7, <2>8 DEF GapInv, Writers
  <2>10. ASSUME ~faulty'
         PROVE  (Behind /\ Encodings /\ Texts /\ Gaps)'
    <3>1. Behind /\ Encodings /\ Texts /\ Gaps
      BY <2>1, <2>10 DEF GapInv
    <3>2. \A q \in Initializer, i \in 1 .. 4 : Passed(q, i)' => Passed(q, i)
      BY <1>1, <2>4 DEF Passed, Creating
    <3>3. \A f \in File : files[f].kind = "file" => files'[f].kind = "file"
      BY <2>2, Kinds
    <3>4. Behind'
      BY <3>1, <3>2, <3>3, FileNames DEF Behind
    <3>5. \A q \in Initializer, f \in Layers : LooksPast(q, f)' => LooksPast(q, f)
      BY <1>1, <2>4 DEF LooksPast, Creating
    <3>6. Encodings'
      BY <1>1, <3>1, <3>3, <3>5, FileNames DEF Encodings
    <3>7. \A q, f : Text(q, f)' = Text(q, f)
      BY <1>1 DEF Text
    <3>8. Text(p, f0) # <<>>
      <4>1. f0 \in Layers => content[p][f0] # <<>>
        <5>1. files[f0].kind # "file"
          BY <1>3
        <5>2. LooksPast(p, f0)
          BY <1>1 DEF LooksPast, Creating
        <5>3. QED
          BY <3>1, <5>1, <5>2 DEF Encodings
      <4>2. QED
        BY <1>1, <4>1, TextIsContent
    <3>9. Texts'
      BY <2>6, <3>1, <3>7, <3>8 DEF Texts
    <3>10. Gaps'
      BY <1>1, <2>6, <2>7, <3>1 DEF Gaps
    <3>11. QED
      BY <3>4, <3>6, <3>9, <3>10
  <2>11. QED
    BY <2>3, <2>5, <2>9, <2>10 DEF GapInv
<1>4. QED
  BY <1>2, <1>3

LEMMA WriteKeepsGaps ==
  ASSUME GapInv, NEW p \in Initializer, WriteAndClose(p)
  PROVE  GapInv'
<1> DEFINE f0 == Resources[index[p]]
<1>1. /\ at[p] = "write" /\ index[p] \in 1 .. 4 /\ f0 \in File
      /\ content' = content /\ faulty' = faulty
      /\ files' = [files EXCEPT ![f0] = Regular(Text(p, f0))]
  BY FileNames
     DEF GapInv, InitTypes, WriteAndClose, Creating, historyVars
<1>2. Advances(p)
  BY <1>1, FileNames DEF WriteAndClose, NextResource, Advances, Step, Creating
<1>3. /\ files' = [f \in File |-> files'[f]]
      /\ \A f \in File :
           files'[f] = IF f = f0 THEN Regular(Text(p, f0)) ELSE files[f]
  BY <1>1 DEF GapInv, FileTypes
<1>4. FileTypes'
  BY <1>3, Kinds DEF GapInv, FileTypes, State
<1>5. Writing(p, f0)
  BY <1>1 DEF Writing
<1>6. \A q \in Initializer, f \in File : Writing(q, f)' => Writing(q, f) /\ f # f0
  BY <1>1, <1>2, <1>5, AdvanceMoves DEF GapInv, Writers
<1>7. \A f \in File : f # f0 => (Hollow(f)' <=> Hollow(f))
  BY <1>3 DEF Hollow
<1>8. Writers'
  BY <1>6, <1>7 DEF GapInv, Writers
<1>9. ASSUME ~faulty'
      PROVE  (Behind /\ Encodings /\ Texts /\ Gaps)'
  <2>1. Behind /\ Encodings /\ Texts /\ Gaps
    BY <1>1, <1>9 DEF GapInv
  <2>2. \A f \in File : files[f].kind = "file" \/ f = f0 => files'[f].kind = "file"
    BY <1>3, Kinds
  <2>3. Behind'
    BY <1>1, <1>2, <2>1, <2>2, AdvanceMoves, FileNames DEF Behind
  <2>4. Encodings'
    BY <1>1, <1>2, <2>1, <2>2, AdvanceMoves, FileNames DEF Encodings
  <2>5. Texts'
    BY <1>1, <1>2, <1>6, <2>1, AdvanceMoves DEF Texts
  <2>6. ASSUME NEW f \in File, f = f0
        PROVE  ~Hollow(f)'
    <3>1. Text(p, f0) # <<>>
      BY <1>1, <1>5, <2>1 DEF Texts
    <3>2. files'[f] = Regular(Text(p, f0))
      BY <1>3, <2>6
    <3>3. QED
      BY <3>1, <3>2, Kinds DEF Hollow
  <2>7. ASSUME NEW f \in File, Hollow(f)'
        PROVE  \E q \in Initializer : Writing(q, f)'
    <3>1. f # f0 /\ Hollow(f)
      BY <1>7, <2>6, <2>7
    <3>2. PICK q \in Initializer : Writing(q, f)
      BY <2>1, <3>1 DEF Gaps
    <3>3. q # p
      BY <3>1, <3>2 DEF Writing
    <3>4. QED
      BY <1>1, <1>2, <3>2, <3>3, AdvanceMoves
  <2>8. Gaps'
    BY <2>7 DEF Gaps
  <2>9. QED
    BY <2>3, <2>4, <2>5, <2>8
<1>10. QED
  BY <1>1, <1>2, <1>4, <1>8, <1>9, AdvanceMoves DEF GapInv

LEMMA WriteFailsKeepsGaps ==
  ASSUME GapInv, NEW p \in Initializer, WriteFails(p)
  PROVE  GapInv'
<1> DEFINE f0 == Resources[index[p]]
<1>1. /\ at[p] = "write" /\ index[p] \in 1 .. 4 /\ f0 \in File
      /\ content' = content /\ index' = index /\ faulty'
      /\ files' = [files EXCEPT ![f0] = Absent]
      /\ at' = [at EXCEPT ![p] = "failed"]
  BY FileNames DEF GapInv, InitTypes, WriteFails, Creating, InitFails, Step
<1>2. /\ files' = [f \in File |-> files'[f]]
      /\ \A f \in File : files'[f] = IF f = f0 THEN Absent ELSE files[f]
  BY <1>1 DEF GapInv, FileTypes
<1>3. FileTypes'
  BY <1>2, Kinds DEF GapInv, FileTypes, State
<1>4. \A q \in Initializer : at'[q] = IF q = p THEN "failed" ELSE at[q]
  BY <1>1 DEF GapInv, InitTypes
<1>5. InitTypes'
  <2>1. at' \in [Initializer -> Places]
    BY <1>1 DEF GapInv, InitTypes, Places
  <2>2. QED
    BY <1>1, <1>4, <2>1 DEF GapInv, InitTypes, Creating
<1>6. Writing(p, f0)
  BY <1>1 DEF Writing
<1>7. \A q \in Initializer, f \in File : Writing(q, f)' => Writing(q, f) /\ q # p
  BY <1>1, <1>4 DEF Writing
<1>8. \A f \in File : f # f0 => (Hollow(f)' <=> Hollow(f))
  BY <1>2 DEF Hollow
<1>9. Writers'
  BY <1>1, <1>6, <1>7, <1>8 DEF GapInv, Writers
<1>10. QED
  BY <1>1, <1>3, <1>5, <1>9 DEF GapInv

LEMMA EditKeepsGaps ==
  ASSUME GapInv, Edit
  PROVE  GapInv'
<1>1. PICK name \in Layers, file \in CommonEdits \cup ConfigEdits :
        /\ files' = [files EXCEPT ![name] = file]
        /\ faulty' = (faulty \/ file = Absent)
        /\ at' = at /\ index' = index /\ content' = content
        /\ \A f \in File : ~Hollow(f)
  BY DEF Edit, Layers, initVars
<1>2. file = Absent \/ Settings(file)
  BY UsersFilesAssumption
<1>3. name \in File
  BY FileNames
<1>4. /\ files' = [f \in File |-> files'[f]]
      /\ \A f \in File : files'[f] = IF f = name THEN file ELSE files[f]
  BY <1>1 DEF GapInv, FileTypes
<1>5. FileTypes'
  BY <1>2, <1>4 DEF GapInv, FileTypes, State, Settings
<1>6. InitTypes'
  BY <1>1 DEF GapInv, InitTypes
<1>7. \A f \in File : ~Hollow(f)'
  BY <1>1, <1>2, <1>4, Kinds DEF Hollow
<1>8. \A q \in Initializer, f \in File : ~Writing(q, f) /\ ~Writing(q, f)'
  BY <1>1 DEF GapInv, Writers, Writing
<1>9. Writers'
  BY <1>8 DEF Writers
<1>10. ASSUME ~faulty'
       PROVE  (Behind /\ Encodings /\ Texts /\ Gaps)'
  <2>1. Behind /\ Encodings /\ Settings(file)
    BY <1>1, <1>2, <1>10 DEF GapInv
  <2>2. \A f \in File : files[f].kind = "file" => files'[f].kind = "file"
    BY <1>4, <2>1, Kinds
  <2>3. \A q, i : Passed(q, i)' <=> Passed(q, i)
    BY <1>1 DEF Passed
  <2>4. Behind'
    BY <2>1, <2>2, <2>3, FileNames DEF Behind
  <2>5. \A q, f : LooksPast(q, f)' <=> LooksPast(q, f)
    BY <1>1 DEF LooksPast
  <2>6. Encodings'
    BY <1>1, <2>1, <2>2, <2>5, FileNames DEF Encodings
  <2>7. Texts' /\ Gaps'
    BY <1>7, <1>8 DEF Texts, Gaps
  <2>8. QED
    BY <2>4, <2>6, <2>7
<1>11. QED
  BY <1>5, <1>6, <1>9, <1>10 DEF GapInv

LEMMA GapStep == GapInv /\ [ProjectNext]_projectVars => GapInv'
<1> SUFFICES ASSUME GapInv, [ProjectNext]_projectVars
             PROVE  GapInv'
  OBVIOUS
<1>1. ASSUME NEW p \in Initializer, InspectContextDirectory(p)
      PROVE  GapInv'
  <2>1. \E next \in {"mkdir", "common.toml", "failed"} : Looks(p, next)
    BY <1>1 DEF InspectContextDirectory, Looks, Step, InitFails, fileVars
  <2>2. QED
    BY <2>1, LooksKeepsGaps
<1>2. ASSUME NEW p \in Initializer, Mkdir(p)
      PROVE  GapInv'
  <2>1. Looks(p, "failed") \/ Looks(p, "common.toml")
    BY <1>2 DEF Mkdir, Looks, Step, InitFails
  <2>2. QED
    BY <2>1, LooksKeepsGaps
<1>3. ASSUME NEW p \in Initializer, CutOff(p)
      PROVE  GapInv'
  <2>1. Looks(p, "failed")
    BY <1>3 DEF CutOff, Looks, Step, InitFails, fileVars
  <2>2. QED
    BY <2>1, LooksKeepsGaps
<1>4. CASE UNCHANGED <<files, initVars, faulty>>
  <2>1. /\ files' = files /\ at' = at /\ index' = index /\ content' = content
        /\ faulty' = faulty
    BY <1>4 DEF initVars
  <2>2. /\ \A f : Hollow(f)' <=> Hollow(f)
        /\ \A q, f : Writing(q, f)' <=> Writing(q, f)
        /\ \A q, f : Text(q, f)' = Text(q, f)
        /\ \A q, i : Passed(q, i)' <=> Passed(q, i)
        /\ \A q, f : LooksPast(q, f)' <=> LooksPast(q, f)
    BY <2>1 DEF Hollow, Writing, Text, Passed, LooksPast
  <2>3. FileTypes' /\ InitTypes' /\ Writers'
    BY <2>1, <2>2 DEF GapInv, FileTypes, InitTypes, Writers
  <2>4. ~faulty' => (Behind /\ Encodings /\ Texts /\ Gaps)'
    BY <2>1, <2>2 DEF GapInv, Behind, Encodings, Texts, Gaps
  <2>5. QED
    BY <2>3, <2>4 DEF GapInv
<1>5. CASE \/ ChooseBase \/ LocateCommon \/ ReadCommon
           \/ LocateLocal \/ ReadLocal \/ LaunchAgain
  <2>1. UNCHANGED <<files, initVars, faulty>>
    BY <1>5 DEF ChooseBase, LocateCommon, LocateLocal, LocateLayer, ReadCommon,
                ReadLocal, ReadLayer, LaunchAgain, fileVars, historyVars
  <2>2. QED
    BY <1>4, <2>1
<1>6. CASE UNCHANGED projectVars
  BY <1>4, <1>6 DEF projectVars, fileVars, historyVars
<1>7. QED
  BY <1>1, <1>2, <1>3, <1>5, <1>6, EncodeKeepsGaps, CheckKeepsGaps,
     CreateKeepsGaps, WriteKeepsGaps, WriteFailsKeepsGaps, EditKeepsGaps
     DEF ProjectNext

\* An init that reports success leaves every file of the directory with its
\* content, or being written by another init, as long as no init was cut off
\* or failed and no file was deleted (init.go:33-35, 93-113).
THEOREM InitIsComplete == ProjectSpec => []InitLeavesNoGap
<1>1. GapInv => InitLeavesNoGap
  <2> SUFFICES ASSUME GapInv, ~faulty, NEW p \in Initializer, at[p] = "done",
                      NEW f \in File
               PROVE  /\ files[f].kind = "file"
                      /\ Hollow(f) => \E q \in Initializer : Writing(q, f)
    BY DEF InitLeavesNoGap, Writing
  <2>1. PICK i \in 1 .. 4 : Resources[i] = f
    BY FileNames
  <2>2. QED
    BY <2>1 DEF GapInv, Behind, Passed, Gaps
<1>2. QED
  BY <1>1, GapInit, GapStep, PTL DEF ProjectSpec

-----------------------------------------------------------------------------
(* What a launch makes of the files.                                       *)

LEMMA OverOne ==
  ASSUME NEW file, NEW portable \in BOOLEAN, NEW c
  PROVE  /\ Over(file, portable, {c}) = DecodeLayer(file, portable, c)
         /\ Over(file, portable, {}) = {}
BY DEF Over

LEMMA OverEach ==
  ASSUME NEW file, NEW portable \in BOOLEAN, NEW S,
         \A c \in S : DecodeLayer(file, portable, c) = {c}
  PROVE  Over(file, portable, S) = S
<1> DEFINE One(c) == DecodeLayer(file, portable, c)
<1>1. Over(file, portable, S) = UNION {One(c) : c \in S}
  BY DEF Over
<1>2. \A c \in S : One(c) = {c}
  OBVIOUS
<1> HIDE DEF One
<1>3. ASSUME NEW x
      PROVE  x \in UNION {One(c) : c \in S} <=> x \in S
  BY <1>2
<1>4. QED
  BY <1>1, <1>3

Chosen == {{}, {GenerateDefaultConfig}, {PlainDefaults}}

\* The base the launch has chosen gives what all the files mean.
LEMMA FittingBase ==
  ASSUME NEW base, Fits(base), State(Meaning("common.toml"))
  PROVE  Over(Meaning("config.toml"), FALSE, Layered(base))
           = Contract(Meaning("common.toml"), Meaning("config.toml"))
<1> DEFINE common == Meaning("common.toml")
           local == Meaning("config.toml")
           full == DecodeLayer(common, TRUE, GenerateDefaultConfig)
<1>1. CASE base = {} /\ local = Other
  <2>1. Layered(base) = {} /\ Over(local, FALSE, {}) = {}
    BY <1>1, OverOne DEF Layered
  <2>2. Contract(common, local) = {}
    BY <1>1, Kinds, ContractIsLayered
  <2>3. QED
    BY <2>1, <2>2
<1>2. CASE base = {GenerateDefaultConfig} /\ local \in {Absent, LocalEncoding}
  <2>1. Layered(base) = full
    BY <1>2, OverOne DEF Layered
  <2>2. Contract(common, Absent) = Over(Absent, FALSE, full)
    BY Kinds, ContractIsLayered
  <2>3. Over(Absent, FALSE, full) = full
    BY AbsentAddsNothing
  <2>4. Over(LocalEncoding, FALSE, full) = full
    <3>1. \A d \in full : DecodeLayer(LocalEncoding, FALSE, d) = {d}
      BY LocalAddsNothing
    <3> HIDE DEF full
    <3>2. QED
      BY <3>1, OverEach
  <2>5. Contract(common, LocalEncoding) = Contract(common, Absent)
    BY LocalKeepsContract
  <2> HIDE DEF full, common, local
  <2>6. QED
    BY <1>2, <2>1, <2>2, <2>3, <2>4, <2>5 DEF common, local
<1>3. CASE base = {PlainDefaults} /\ Settings(local)
  <2>1. local.kind = "file"
    BY <1>3, Kinds
  <2>2. Layered(base) = DecodeLayer(common, TRUE, PlainDefaults)
    BY <1>3, OverOne DEF Layered
  <2>3. QED
    BY <2>1, <2>2, ContractIsLayered
<1>4. QED
  BY <1>1, <1>2, <1>3 DEF Fits, LocalEncoding

\* What an init does to the meaning of a file: nothing, or it completes it.
Completes(f) == Meaning(f) = Absent /\ Meaning(f)' = Regular(Encoded(f))
Meant ==
  \/ \A f \in Layers : Meaning(f)' = Meaning(f)
  \/ \E f \in Layers : Completes(f)
       /\ \A g \in Layers \ {f} : Meaning(g)' = Meaning(g)

LEMMA MeaningIsState ==
  ASSUME GapInv, NEW f \in Layers
  PROVE  State(Meaning(f))
BY FileNames, Kinds DEF GapInv, FileTypes, State, Meaning

LEMMA MeantKeepsLaunch ==
  ASSUME LaunchInv, GapInv', Meant, UNCHANGED <<launchVars, expected>>
  PROVE  LaunchInv'
<1> DEFINE common == Meaning("common.toml")
           local == Meaning("config.toml")
<1>1. /\ launch' = launch /\ resolved' = resolved /\ disturbed' = disturbed
      /\ expected' = expected
  BY DEF launchVars
<1>2. State(common) /\ "common.toml" \in Layers /\ "config.toml" \in Layers
  BY MeaningIsState DEF LaunchInv, Layers
<1>3. \/ common' = common /\ local' = local
      \/ /\ common = Absent /\ common' = Regular(Encoded("common.toml"))
         /\ local' = local
      \/ common' = common /\ local = Absent /\ local' = LocalEncoding
  BY DEF Meant, Completes, Layers, LocalEncoding
<1>4. Contract(common', local') = Contract(common, local)
  BY <1>2, <1>3, CommonKeepsContract, LocalKeepsContract
<1>5. Expectation'
  BY <1>1, <1>4 DEF LaunchInv, Expectation
<1>6. ASSUME NEW base, Fits(base)
      PROVE  Fits(base)'
  <2>1. local' = local \/ (local = Absent /\ local' = LocalEncoding)
    BY <1>3
  <2>2. Absent # Other /\ ~Settings(Absent)
    BY Kinds
  <2>3. QED
    BY <1>6, <2>1, <2>2 DEF Fits, LocalEncoding
<1>7. ASSUME NEW base \in Chosen
      PROVE  Layered(base)' = Layered(base)
  <2>1. CASE common' = common
    BY <2>1 DEF Layered
  <2>2. CASE common = Absent /\ common' = Regular(Encoded("common.toml"))
    <3>1. Over(Absent, TRUE, base) = base
      BY AbsentAddsNothing
    <3>2. Over(Regular(Encoded("common.toml")), TRUE, base) = base
      <4>1. \A c \in base :
              DecodeLayer(Regular(Encoded("common.toml")), TRUE, c) = {c}
        BY CommonAddsNothing DEF Chosen, PlainAndDefault
      <4>2. QED
        BY <4>1, OverEach
    <3>3. QED
      BY <2>2, <3>1, <3>2 DEF Layered
  <2>3. QED
    BY <1>3, <2>1, <2>2
<1>8. ASSUME ~disturbed'
      PROVE  Progress'
  <2>1. Progress
    BY <1>1, <1>8 DEF LaunchInv
  <2>2. launch' \in {"locate common.toml", "read common.toml"} =>
          Fits(resolved)'
    BY <1>1, <1>6, <2>1 DEF Progress, Fits
  <2>3. ASSUME launch' \in {"locate config.toml", "read config.toml"}
        PROVE  \E base \in Chosen : Fits(base)' /\ resolved' = Layered(base)'
    <3>1. PICK base \in Chosen : Fits(base) /\ resolved = Layered(base)
      BY <1>1, <2>1, <2>3 DEF Progress, Chosen
    <3>2. Fits(base)' /\ Layered(base)' = Layered(base)
      BY <1>6, <1>7, <3>1
    <3>3. QED
      BY <1>1, <3>1, <3>2
  <2>4. launch' = "resolved" => resolved' = expected'
    BY <1>1, <2>1 DEF Progress
  <2>5. QED
    BY <2>2, <2>3, <2>4 DEF Progress, Chosen
<1>9. QED
  BY <1>5, <1>8 DEF LaunchInv

\* A step that changes no file changes no meaning.
LEMMA SameFiles ==
  ASSUME files' = files
  PROVE  Meant
<1>1. \A f : Meaning(f)' = Meaning(f)
  BY DEF Meaning, Hollow
<1>2. QED
  BY <1>1 DEF Meant

LEMMA CreateIsMeant ==
  ASSUME GapInv, NEW p \in Initializer, CreateExclusively(p)
  PROVE  Meant
<1> DEFINE f0 == Resources[index[p]]
<1>1. CASE files[f0].kind # "absent"
  BY <1>1, SameFiles DEF CreateExclusively
<1>2. CASE files[f0].kind = "absent"
  <2>1. index[p] \in 1 .. 4 /\ f0 \in File
    BY FileNames DEF GapInv, InitTypes, CreateExclusively, Creating
  <2>2. files[f0] = Absent
    BY <1>2, <2>1, Kinds DEF GapInv, FileTypes, State
  <2>3. \A f \in File :
          files'[f] = IF f = f0 THEN Regular(<<>>) ELSE files[f]
    BY <1>2 DEF CreateExclusively, GapInv, FileTypes
  <2>4. \A f \in File : Meaning(f)' = Meaning(f)
    BY <2>2, <2>3, Kinds DEF Meaning, Hollow
  <2>5. QED
    BY <2>4, FileNames DEF Meant
<1>3. QED
  BY <1>1, <1>2

LEMMA WriteIsMeant ==
  ASSUME GapInv, NEW p \in Initializer, WriteAndClose(p)
  PROVE  Meant
<1> DEFINE f0 == Resources[index[p]]
<1>1. /\ at[p] = "write" /\ index[p] \in 1 .. 4 /\ f0 \in File
      /\ files' = [files EXCEPT ![f0] = Regular(Text(p, f0))]
  BY FileNames DEF GapInv, InitTypes, WriteAndClose, Creating
<1>2. PICK name \in File : name = f0
  BY <1>1
<1>3. \A f \in File :
        files'[f] = IF f = name THEN Regular(Text(p, name)) ELSE files[f]
  BY <1>1, <1>2 DEF GapInv, FileTypes
<1>4. Hollow(name)
  BY <1>1, <1>2 DEF GapInv, Writers, Writing
<1>5. \A f \in File : f # name => Meaning(f)' = Meaning(f)
  BY <1>3 DEF Meaning, Hollow
<1>6. Meaning(name) = Absent
  BY <1>4 DEF Meaning
<1>7. CASE name \notin Layers
  BY <1>5, <1>7, FileNames DEF Meant
<1>8. CASE name \in Layers
  <2>1. Text(p, name) \in {<<>>, Encoded(name)}
    BY <1>8 DEF Text, Layers, GapInv, InitTypes
  <2>2. CASE Text(p, name) = <<>>
    <3>1. Meaning(name)' = Absent
      BY <1>3, <2>2 DEF Meaning, Hollow
    <3>2. QED
      BY <1>5, <1>6, <3>1, FileNames DEF Meant
  <2>3. CASE Text(p, name) = Encoded(name)
    <3>1. files'[name] = Regular(Encoded(name))
      BY <1>3, <2>3
    <3>2. Regular(Encoded(name)) # Regular(<<>>)
      BY <1>8, EncodedHasSettings, Kinds
    <3>3. Meaning(name)' = Regular(Encoded(name))
      BY <3>1, <3>2 DEF Meaning, Hollow
    <3>4. QED
      BY <1>5, <1>6, <1>8, <3>3, FileNames DEF Meant, Completes
  <2>4. QED
    BY <2>1, <2>2, <2>3
<1>9. QED
  BY <1>7, <1>8

LEMMA WriteFailsIsMeant ==
  ASSUME GapInv, NEW p \in Initializer, WriteFails(p)
  PROVE  Meant
<1> DEFINE f0 == Resources[index[p]]
<1>1. /\ at[p] = "write" /\ index[p] \in 1 .. 4 /\ f0 \in File
      /\ files' = [files EXCEPT ![f0] = Absent]
  BY FileNames DEF GapInv, InitTypes, WriteFails, Creating
<1>2. PICK name \in File : name = f0
  BY <1>1
<1>3. \A f \in File : files'[f] = IF f = name THEN Absent ELSE files[f]
  BY <1>1, <1>2 DEF GapInv, FileTypes
<1>4. Hollow(name)
  BY <1>1, <1>2 DEF GapInv, Writers, Writing
<1>5. \A f \in File : Meaning(f)' = Meaning(f)
  BY <1>3, <1>4, Kinds DEF Meaning, Hollow
<1>6. QED
  BY <1>5, FileNames DEF Meant

LEMMA EditKeepsLaunch ==
  ASSUME LaunchInv, GapInv', Edit
  PROVE  LaunchInv'
<1>1. disturbed'
  BY DEF Edit
<1>2. PICK name \in Layers, file \in CommonEdits \cup ConfigEdits :
        /\ files' = [files EXCEPT ![name] = file]
        /\ \A f \in File : ~Hollow(f)
        /\ expected' = Contract(files'["common.toml"], files'["config.toml"])
  BY DEF Edit, Layers
<1>3. \A f \in File : files'[f] = IF f = name THEN file ELSE files[f]
  BY <1>2 DEF LaunchInv, GapInv, FileTypes
<1>4. file # Regular(<<>>)
  BY UsersFilesAssumption, Kinds
<1>5. \A f \in File : Meaning(f)' = files'[f]
  BY <1>2, <1>3, <1>4 DEF Meaning, Hollow
<1>6. Expectation'
  BY <1>2, <1>5, FileNames DEF Expectation
<1>7. QED
  BY <1>1, <1>6 DEF LaunchInv

LEMMA ReadsKeepExpectation ==
  ASSUME LaunchInv, GapInv', UNCHANGED <<files, expected>>
  PROVE  Expectation'
<1>1. \A f : Meaning(f)' = Meaning(f)
  BY DEF Meaning, Hollow
<1>2. QED
  BY <1>1 DEF LaunchInv, Expectation

LEMMA ChooseKeepsLaunch ==
  ASSUME LaunchInv, GapInv', ChooseBase
  PROVE  LaunchInv'
<1> DEFINE local == files["config.toml"]
<1>1. /\ files' = files /\ expected' = expected /\ launch' = "locate common.toml"
      /\ disturbed' = Hollow("config.toml")
      /\ resolved' = CASE local.kind = "absent" -> {GenerateDefaultConfig}
                       [] local.kind = "other"  -> {}
                       [] OTHER                 -> {PlainDefaults}
  BY DEF ChooseBase, fileVars, historyVars
<1>2. Expectation'
  BY <1>1, ReadsKeepExpectation
<1>3. ASSUME ~disturbed'
      PROVE  Fits(resolved)'
  <2>1. ~Hollow("config.toml")
    BY <1>1, <1>3 DEF Hollow
  <2>2. Meaning("config.toml")' = local
    BY <1>1, <2>1 DEF Meaning, Hollow
  <2>3. local \in {Absent, Other, Regular(local.keys)}
    BY FileNames DEF LaunchInv, GapInv, FileTypes, State, Layers
  <2>4. CASE local = Absent
    <3>1. resolved' = {GenerateDefaultConfig}
      BY <1>1, <2>4, Kinds
    <3>2. QED
      BY <2>2, <2>4, <3>1 DEF Fits
  <2>5. CASE local = Other
    <3>1. resolved' = {}
      BY <1>1, <2>5, Kinds
    <3>2. QED
      BY <2>2, <2>5, <3>1 DEF Fits
  <2>6. CASE local = Regular(local.keys)
    <3>1. local.keys # <<>>
      BY <2>1, <2>6 DEF Hollow
    <3>2. Settings(local)
      BY <2>6, <3>1 DEF Settings
    <3>3. resolved' = {PlainDefaults}
      BY <1>1, <2>6, Kinds
    <3>4. QED
      BY <2>2, <3>2, <3>3 DEF Fits
  <2>7. QED
    BY <2>3, <2>4, <2>5, <2>6
<1>4. ~disturbed' => Progress'
  BY <1>1, <1>3 DEF Progress
<1>5. QED
  BY <1>2, <1>4 DEF LaunchInv

\* A launch that has the base, and what it has after the first layer.
LayerRead ==
  \E base \in Chosen : Fits(base) /\ resolved = Layered(base)

LEMMA CommonGivesLayer ==
  ASSUME LaunchInv, GapInv', UNCHANGED <<files, expected>>, Fits(resolved),
         ~Hollow("common.toml"),
         resolved' = Over(files["common.toml"], TRUE, resolved)
  PROVE  LayerRead'
<1>1. \A f : Meaning(f)' = Meaning(f)
  BY DEF Meaning, Hollow
<1>2. Meaning("common.toml") = files["common.toml"]
  BY DEF Meaning
<1>3. PICK base \in Chosen : base = resolved
  BY DEF Fits, Chosen
<1>4. Fits(base)' /\ Layered(base)' = Layered(base)
  BY <1>1, <1>3 DEF Fits, Layered
<1>5. resolved' = Layered(base)
  BY <1>2, <1>3 DEF Layered
<1>6. QED
  BY <1>4, <1>5 DEF LayerRead, Chosen

LEMMA LocalGivesContract ==
  ASSUME LaunchInv, UNCHANGED <<files, expected>>, LayerRead,
         ~Hollow("config.toml"),
         resolved' = Over(files["config.toml"], FALSE, resolved)
  PROVE  resolved' = expected'
<1>1. PICK base \in Chosen : Fits(base) /\ resolved = Layered(base)
  BY DEF LayerRead
<1>2. Meaning("config.toml") = files["config.toml"]
  BY DEF Meaning
<1>3. State(Meaning("common.toml"))
  BY MeaningIsState DEF LaunchInv, Layers
<1>4. QED
  BY <1>1, <1>2, <1>3, FittingBase DEF LaunchInv, Expectation

\* Where there is no file to read, the layer is over.
LEMMA NothingToRead ==
  ASSUME GapInv, NEW f \in Layers, files[f].kind # "file",
         NEW portable \in BOOLEAN
  PROVE  /\ ~Hollow(f)
         /\ Over(files[f], portable, resolved) =
              IF files[f].kind = "absent" THEN resolved ELSE {}
<1>1. files[f] \in {Absent, Other}
  BY FileNames, Kinds DEF GapInv, FileTypes, State, Layers
<1>2. CASE files[f] = Absent
  BY <1>2, AbsentAddsNothing, Kinds DEF Hollow
<1>3. CASE files[f] = Other
  <2>1. \A c : DecodeLayer(Other, portable, c) = {}
    BY Kinds DEF DecodeLayer
  <2>2. QED
    BY <1>3, <2>1, Kinds DEF Over, Hollow
<1>4. QED
  BY <1>1, <1>2, <1>3

LEMMA LocateCommonKeepsLaunch ==
  ASSUME LaunchInv, GapInv', LocateCommon
  PROVE  LaunchInv'
<1>1. /\ files' = files /\ expected' = expected /\ disturbed' = disturbed
      /\ launch = "locate common.toml"
  BY DEF LocateCommon, LocateLayer, fileVars, historyVars
<1>2. Expectation'
  BY <1>1, ReadsKeepExpectation
<1>3. \A f : Meaning(f)' = Meaning(f)
  BY <1>1 DEF Meaning, Hollow
<1>4. ~disturbed => Fits(resolved)
  BY <1>1 DEF LaunchInv, Progress
<1>5. CASE files["common.toml"].kind = "file"
  <2>1. launch' = "read common.toml" /\ resolved' = resolved
    BY <1>5 DEF LocateCommon, LocateLayer
  <2>2. ~disturbed' => Fits(resolved)'
    BY <1>1, <1>3, <1>4, <2>1 DEF Fits
  <2>3. QED
    BY <1>2, <2>1, <2>2 DEF LaunchInv, Progress
<1>6. CASE files["common.toml"].kind # "file"
  <2>1. /\ launch' = "locate config.toml"
        /\ resolved' = IF files["common.toml"].kind = "absent"
                       THEN resolved ELSE {}
    BY <1>6 DEF LocateCommon, LocateLayer
  <2>2. /\ ~Hollow("common.toml")
        /\ resolved' = Over(files["common.toml"], TRUE, resolved)
    BY <1>6, <2>1, NothingToRead DEF LaunchInv, Layers
  <2>3. ~disturbed' => LayerRead'
    BY <1>1, <1>4, <2>2, CommonGivesLayer
  <2>4. QED
    BY <1>2, <2>1, <2>3 DEF LaunchInv, Progress, LayerRead, Chosen
<1>7. QED
  BY <1>5, <1>6

LEMMA ReadCommonKeepsLaunch ==
  ASSUME LaunchInv, GapInv', ReadCommon
  PROVE  LaunchInv'
<1>1. /\ files' = files /\ expected' = expected
      /\ launch = "read common.toml" /\ launch' = "locate config.toml"
      /\ disturbed' = (disturbed \/ Hollow("common.toml")
                         \/ files["common.toml"].kind = "absent")
  BY DEF ReadCommon, ReadLayer, fileVars, historyVars
<1>2. Expectation'
  BY <1>1, ReadsKeepExpectation
<1>3. ASSUME ~disturbed'
      PROVE  LayerRead'
  <2>1. /\ ~disturbed /\ ~Hollow("common.toml")
        /\ files["common.toml"].kind # "absent"
    BY <1>1, <1>3
  <2>2. Fits(resolved)
    BY <1>1, <2>1 DEF LaunchInv, Progress
  <2>3. resolved' = Over(files["common.toml"], TRUE, resolved)
    BY <2>1 DEF ReadCommon, ReadLayer, Over
  <2>4. QED
    BY <1>1, <2>1, <2>2, <2>3, CommonGivesLayer
<1>4. QED
  BY <1>1, <1>2, <1>3 DEF LaunchInv, Progress, LayerRead, Chosen

LEMMA LocateLocalKeepsLaunch ==
  ASSUME LaunchInv, GapInv', LocateLocal
  PROVE  LaunchInv'
<1>1. /\ files' = files /\ expected' = expected /\ disturbed' = disturbed
      /\ launch = "locate config.toml"
  BY DEF LocateLocal, LocateLayer, fileVars, historyVars
<1>2. Expectation'
  BY <1>1, ReadsKeepExpectation
<1>3. \A f : Meaning(f)' = Meaning(f)
  BY <1>1 DEF Meaning, Hollow
<1>4. ~disturbed => LayerRead
  BY <1>1 DEF LaunchInv, Progress, LayerRead, Chosen
<1>5. CASE files["config.toml"].kind = "file"
  <2>1. launch' = "read config.toml" /\ resolved' = resolved
    BY <1>5 DEF LocateLocal, LocateLayer
  <2>2. ASSUME ~disturbed'
        PROVE  LayerRead'
    <3>1. PICK base \in Chosen : Fits(base) /\ resolved = Layered(base)
      BY <1>1, <1>4, <2>2 DEF LayerRead
    <3>2. Fits(base)' /\ Layered(base)' = Layered(base)
      BY <1>3, <3>1 DEF Fits, Layered
    <3>3. QED
      BY <2>1, <3>1, <3>2 DEF LayerRead, Chosen
  <2>3. QED
    BY <1>2, <2>1, <2>2 DEF LaunchInv, Progress, LayerRead, Chosen
<1>6. CASE files["config.toml"].kind # "file"
  <2>1. /\ launch' = "resolved"
        /\ resolved' = IF files["config.toml"].kind = "absent"
                       THEN resolved ELSE {}
    BY <1>6 DEF LocateLocal, LocateLayer
  <2>2. /\ ~Hollow("config.toml")
        /\ resolved' = Over(files["config.toml"], FALSE, resolved)
    BY <1>6, <2>1, NothingToRead DEF LaunchInv, Layers
  <2>3. ~disturbed' => resolved' = expected'
    BY <1>1, <1>4, <2>2, LocalGivesContract
  <2>4. QED
    BY <1>2, <2>1, <2>3 DEF LaunchInv, Progress
<1>7. QED
  BY <1>5, <1>6

LEMMA ReadLocalKeepsLaunch ==
  ASSUME LaunchInv, GapInv', ReadLocal
  PROVE  LaunchInv'
<1>1. /\ files' = files /\ expected' = expected
      /\ launch = "read config.toml" /\ launch' = "resolved"
      /\ disturbed' = (disturbed \/ Hollow("config.toml")
                         \/ files["config.toml"].kind = "absent")
  BY DEF ReadLocal, ReadLayer, fileVars, historyVars
<1>2. Expectation'
  BY <1>1, ReadsKeepExpectation
<1>3. ASSUME ~disturbed'
      PROVE  resolved' = expected'
  <2>1. /\ ~disturbed /\ ~Hollow("config.toml")
        /\ files["config.toml"].kind # "absent"
    BY <1>1, <1>3
  <2>2. LayerRead
    BY <1>1, <2>1 DEF LaunchInv, Progress, LayerRead, Chosen
  <2>3. resolved' = Over(files["config.toml"], FALSE, resolved)
    BY <2>1 DEF ReadLocal, ReadLayer, Over
  <2>4. QED
    BY <1>1, <2>1, <2>2, <2>3, LocalGivesContract
<1>4. QED
  BY <1>1, <1>2, <1>3 DEF LaunchInv, Progress

LEMMA LaunchInvInit == ProjectInit => LaunchInv
<1> SUFFICES ASSUME ProjectInit
             PROVE  LaunchInv
  OBVIOUS
<1>1. GapInv
  BY GapInit
<1>2. launch = "idle" /\ faulty = FALSE
      /\ expected = Contract(files["common.toml"], files["config.toml"])
      /\ \A p \in Initializer : at[p] = "inspect"
  BY DEF ProjectInit
<1>3. \A f \in File : ~Hollow(f)
  BY <1>1, <1>2 DEF GapInv, Gaps, Writing
<1>4. Expectation
  BY <1>2, <1>3, FileNames DEF Expectation, Meaning
<1>5. Progress
  BY <1>2 DEF Progress
<1>6. QED
  BY <1>1, <1>4, <1>5 DEF LaunchInv

LEMMA LaunchInvStep == LaunchInv /\ [ProjectNext]_projectVars => LaunchInv'
<1> SUFFICES ASSUME LaunchInv, [ProjectNext]_projectVars
             PROVE  LaunchInv'
  OBVIOUS
<1>1. GapInv /\ GapInv'
  BY GapStep DEF LaunchInv
<1>2. ASSUME NEW p \in Initializer,
             \/ InspectContextDirectory(p) \/ Mkdir(p) \/ EncodeIfMissing(p)
             \/ CheckExisting(p) \/ CutOff(p)
      PROVE  LaunchInv'
  <2>1. files' = files /\ UNCHANGED <<launchVars, expected>>
    BY <1>2 DEF InspectContextDirectory, Mkdir, EncodeIfMissing, CheckExisting,
                CutOff, fileVars, historyVars
  <2>2. QED
    BY <1>1, <2>1, SameFiles, MeantKeepsLaunch
<1>3. ASSUME NEW p \in Initializer,
             CreateExclusively(p) \/ WriteAndClose(p) \/ WriteFails(p)
      PROVE  LaunchInv'
  <2>1. UNCHANGED <<launchVars, expected>>
    BY <1>3 DEF CreateExclusively, WriteAndClose, WriteFails, historyVars
  <2>2. Meant
    BY <1>1, <1>3, CreateIsMeant, WriteIsMeant, WriteFailsIsMeant
  <2>3. QED
    BY <1>1, <2>1, <2>2, MeantKeepsLaunch
<1>4. CASE LaunchAgain
  <2>1. /\ files' = files /\ expected' = expected /\ launch' = "idle"
    BY <1>4 DEF LaunchAgain, fileVars, historyVars
  <2>2. Expectation'
    BY <1>1, <2>1, ReadsKeepExpectation
  <2>3. Progress'
    BY <2>1 DEF Progress
  <2>4. QED
    BY <1>1, <2>2, <2>3 DEF LaunchInv
<1>5. CASE UNCHANGED projectVars
  <2>1. files' = files /\ UNCHANGED <<launchVars, expected>>
    BY <1>5 DEF projectVars, fileVars, historyVars
  <2>2. QED
    BY <1>1, <2>1, SameFiles, MeantKeepsLaunch
<1>6. QED
  BY <1>1, <1>2, <1>3, <1>4, <1>5, EditKeepsLaunch, ChooseKeepsLaunch,
     LocateCommonKeepsLaunch, ReadCommonKeepsLaunch, LocateLocalKeepsLaunch,
     ReadLocalKeepsLaunch DEF ProjectNext

\* A launch resolves the same contract before, during and after any number of
\* initialisations, complete or cut off, unless it has read a file that was
\* created and not yet written, or that was gone again (project_config.go:45-74, config.go:220-247).
THEOREM LaunchMeansTheSame == ProjectSpec => []LaunchIsUnaffected
<1>1. LaunchInv => LaunchIsUnaffected
  BY DEF LaunchInv, Progress, LaunchIsUnaffected
<1>2. QED
  BY <1>1, LaunchInvInit, LaunchInvStep, PTL DEF ProjectSpec
=============================================================================
