--------------------------- MODULE BagFiles_proofs ---------------------------
(***************************************************************************)
(* Proofs about BagFiles, for any clock readings, number of attempts,      *)
(* episodes, foreign directories and restarts: IndInv is inductive, and    *)
(* the safety and action properties the run checks follow from it.         *)
(***************************************************************************)
EXTENDS BagFiles, NaturalLemmas, FiniteSetTheorems, TLAPS

-----------------------------------------------------------------------------
(* Names.                                                                  *)

(* With one directory per episode and MaxForeign of another process, the   *)
(* suffixes never run out.                                                 *)
LEMMA SomeSuffixIsFree ==
  ASSUME TypeOK, DirsInv, NEW stamp \in Stamps
  PROVE  \E n \in 0 .. MaxSuffix : ~Exists([stamp |-> stamp, suffix |-> n])
<1> DEFINE path(n) == [stamp |-> stamp, suffix |-> n]
           F == {n \in 0 .. MaxSuffix : dirs[path(n)].maker = Foreign}
           O == {n \in 0 .. MaxSuffix : dirs[path(n)].maker # Foreign}
           pathOf == [n \in F |-> path(n)]
           makerOf == [n \in O |-> dirs[path(n)].maker]
<1> SUFFICES ASSUME \A n \in 0 .. MaxSuffix : path(n) \in DOMAIN dirs
             PROVE  FALSE
  BY DEF Exists
<1>0. MaxSuffix \in Nat /\ MaxEpisodes \in Nat /\ MaxForeign \in Nat
  BY BoundsAssumption DEF MaxSuffix
<1>1. IsFiniteSet(F) /\ Cardinality(F) <= MaxForeign
  <2>1. pathOf \in Injection(F, ForeignDirs)
    BY DEF Injection, IsInjective, ForeignDirs
  <2>2. IsFiniteSet(ForeignDirs) /\ Cardinality(ForeignDirs) <= MaxForeign
    BY FS_Subset DEF DirsInv, ForeignDirs
  <2> HIDE DEF F, pathOf
  <2>3. IsFiniteSet(F) /\ Cardinality(F) <= Cardinality(ForeignDirs)
    BY <2>1, <2>2, FS_Injection
  <2> QED
    BY <1>0, <2>2, <2>3, FS_CardinalityType
<1>2. IsFiniteSet(O) /\ Cardinality(O) <= MaxEpisodes
  <2>1. makerOf \in [O -> Episodes]
    BY <1>0 DEF TypeOK, Foreign, Episodes
  <2>2. \A n, m \in O : makerOf[n] = makerOf[m] => n = m
    BY DEF DirsInv
  <2>3. makerOf \in Injection(O, Episodes)
    BY <2>1, <2>2 DEF Injection, IsInjective
  <2>4. IsFiniteSet(Episodes) /\ Cardinality(Episodes) = MaxEpisodes
    BY <1>0, FS_Interval DEF Episodes
  <2> HIDE DEF O, makerOf
  <2> QED
    BY <2>3, <2>4, FS_Injection
<1>3. F \cup O = 0 .. MaxSuffix
  OBVIOUS
<1>4. Cardinality(0 .. MaxSuffix) = MaxSuffix + 1
  BY <1>0, FS_Interval
<1> HIDE DEF F, O
<1>5. Cardinality(F \cup O) = Cardinality(F) + Cardinality(O) - Cardinality(F \cap O)
  BY <1>1, <1>2, FS_Union
<1>6. Cardinality(F) \in Nat /\ Cardinality(O) \in Nat /\ Cardinality(F \cap O) \in Nat
  <2>1. IsFiniteSet(F \cap O)
    BY <1>1, FS_Intersection
  <2> QED
    BY <1>1, <1>2, <2>1, FS_CardinalityType
<1>7. MaxSuffix + 1 = Cardinality(F) + Cardinality(O) - Cardinality(F \cap O)
  BY <1>3, <1>4, <1>5
<1>8. MaxSuffix = MaxEpisodes + MaxForeign
  BY DEF MaxSuffix
<1> DEFINE f == Cardinality(F)
           o == Cardinality(O)
           b == Cardinality(F \cap O)
<1>9. /\ f \in Nat /\ o \in Nat /\ b \in Nat
      /\ f <= MaxForeign /\ o <= MaxEpisodes /\ MaxSuffix + 1 = f + o - b
  BY <1>1, <1>2, <1>6, <1>7
<1> HIDE DEF f, o, b
<1> QED
  BY <1>0, <1>8, <1>9

(* create_bag_dir's loop ends, at a name that does not exist.              *)
LEMMA FreeNameIsFree ==
  ASSUME TypeOK, DirsInv, NEW stamp \in Stamps
  PROVE  FreeName(stamp) \in Paths /\ ~Exists(FreeName(stamp))
<1> DEFINE free == {n \in 0 .. MaxSuffix : ~Exists([stamp |-> stamp, suffix |-> n])}
           least == CHOOSE n \in free : \A m \in free : n <= m
<1>1. free # {} /\ free \in SUBSET Nat
  BY SomeSuffixIsFree
<1>2. \E n \in free : \A m \in free : n <= m
  <2> HIDE DEF free
  <2> QED
    BY <1>1, LeastNumber
<1>3. least \in free
  BY <1>2
<1>4. FreeName(stamp) = [stamp |-> stamp, suffix |-> least]
  BY DEF FreeName
<1> HIDE DEF least
<1> QED
  BY <1>3, <1>4 DEF Paths

(* A path is never the empty one.                                          *)
LEMMA NoPathIsNone == NoPath \notin Paths
BY StampsAssumption DEF NoPath, Paths

-----------------------------------------------------------------------------
(* What the steps do to the directories.                                   *)

(* Making a directory leaves the others alone.                             *)
LEMMA WithDirEffect ==
  ASSUME NEW path, NEW maker, NEW meta, path \notin DOMAIN dirs,
         dirs' = WithDir(path, maker, meta)
  PROVE  /\ DOMAIN dirs' = DOMAIN dirs \cup {path}
         /\ dirs'[path] = [maker |-> maker, meta |-> meta]
         /\ \A p \in DOMAIN dirs : p # path /\ dirs'[p] = dirs[p]
BY DEF WithDir

(* Writing metadata.yaml changes the current bag's, and nothing else.      *)
LEMMA WithMetaEffect ==
  ASSUME TypeOK, Exists(current_bag_dir), NEW meta, dirs' = WithMeta(meta)
  PROVE  /\ DOMAIN dirs' = DOMAIN dirs
         /\ dirs'[current_bag_dir] = [maker |-> dirs[current_bag_dir].maker, meta |-> meta]
         /\ \A p \in DOMAIN dirs : p # current_bag_dir => dirs'[p] = dirs[p]
         /\ \A p \in DOMAIN dirs : dirs'[p].maker = dirs[p].maker
<1>1. dirs[current_bag_dir] \in [maker : 0 .. MaxEpisodes, meta : Metadata]
  BY DEF TypeOK, Exists
<1>2. [dirs[current_bag_dir] EXCEPT !.meta = meta] = [maker |-> dirs[current_bag_dir].maker, meta |-> meta]
  BY <1>1
<1> QED
  BY <1>2 DEF WithMeta, Exists

(* The values metadata.yaml takes.                                         *)
LEMMA MetadataValues ==
  /\ NoFile \in Metadata /\ Empty \in Metadata /\ Broken \in Metadata /\ FromRosbag2 \in Metadata
  /\ \A m \in Metadata : [m EXCEPT !.custom = TRUE] \in Metadata
<1>1. NoFile \in Metadata /\ Empty \in Metadata /\ Broken \in Metadata /\ FromRosbag2 \in Metadata
  BY DEF NoFile, Empty, Broken, FromRosbag2, Metadata
<1>2. \A m \in Metadata : [m EXCEPT !.custom = TRUE] \in Metadata
  BY DEF Metadata
<1> QED
  BY <1>1, <1>2

-----------------------------------------------------------------------------
(* Types.                                                                  *)

(* They hold at the start.                                                 *)
LEMMA InitTypeOK == Init => TypeOK
<1> SUFFICES ASSUME Init PROVE TypeOK
  OBVIOUS
<1> QED
  BY BoundsAssumption, MetadataValues DEF Init, TypeOK

(* What the directories hold stays in its type when one is made, one is    *)
(* removed or the metadata of one is written.                              *)
DirTypes ==
  /\ DOMAIN dirs \subseteq Paths
  /\ \A p \in DOMAIN dirs : dirs[p] \in [maker : 0 .. MaxEpisodes, meta : Metadata]

LEMMA WithDirTypes ==
  ASSUME TypeOK, NEW path \in Paths, NEW maker \in 0 .. MaxEpisodes, path \notin DOMAIN dirs,
         NEW meta \in Metadata, dirs' = WithDir(path, maker, meta)
  PROVE  DirTypes'
<1>1. [maker |-> maker, meta |-> meta] \in [maker : 0 .. MaxEpisodes, meta : Metadata]
  OBVIOUS
<1>2. /\ DOMAIN dirs' = DOMAIN dirs \cup {path}
      /\ dirs'[path] = [maker |-> maker, meta |-> meta]
      /\ \A p \in DOMAIN dirs : p # path /\ dirs'[p] = dirs[p]
  BY WithDirEffect
<1> QED
  BY <1>1, <1>2 DEF TypeOK, DirTypes

LEMMA WithMetaTypes ==
  ASSUME TypeOK, Exists(current_bag_dir), NEW meta \in Metadata, dirs' = WithMeta(meta)
  PROVE  DirTypes'
<1>1. /\ DOMAIN dirs' = DOMAIN dirs
      /\ dirs'[current_bag_dir] = [maker |-> dirs[current_bag_dir].maker, meta |-> meta]
      /\ \A p \in DOMAIN dirs : p # current_bag_dir => dirs'[p] = dirs[p]
  BY WithMetaEffect
<1>2. dirs'[current_bag_dir] \in [maker : 0 .. MaxEpisodes, meta : Metadata]
  BY <1>1 DEF TypeOK, Exists
<1> QED
  BY <1>1, <1>2 DEF TypeOK, DirTypes

(* Naming and opening.                                                     *)
LEMMA OpeningTypes ==
  ASSUME IndInv,
         \/ \E stamp \in Stamps : CreateBagDir(stamp) \/ OtherProcess(stamp)
         \/ OpenBag \/ OpenRefused \/ CancelPendingStart
         \/ \E meta \in {NoFile, FromRosbag2} : OpenFails(meta)
  PROVE  TypeOK'
<1> USE BoundsAssumption DEF IndInv, process, history
<1>1. ASSUME NEW stamp \in Stamps, CreateBagDir(stamp) PROVE TypeOK'
  BY <1>1, FreeNameIsFree DEF CreateBagDir, TypeOK
<1>2. ASSUME NEW stamp \in Stamps, OtherProcess(stamp) PROVE TypeOK'
  <2>1. DirTypes'
    BY <1>2, FreeNameIsFree, WithDirTypes, MetadataValues DEF OtherProcess, Exists, Foreign
  <2> QED
    BY <1>2, <2>1 DEF OtherProcess, TypeOK, DirTypes
<1>3. ASSUME NEW meta \in {NoFile, FromRosbag2}, OpenBag \/ OpenFails(meta) PROVE TypeOK'
  <2>1. DirTypes'
    BY <1>3, WithDirTypes, MetadataValues DEF OpenBag, OpenFails, Exists, DirsInv, TypeOK
  <2> QED
    BY <1>3, <2>1 DEF OpenBag, OpenFails, TypeOK, DirTypes
<1>4. CASE OpenRefused \/ CancelPendingStart
  BY <1>4 DEF OpenRefused, CancelPendingStart, TypeOK, Exists
<1> QED
  BY <1>1, <1>2, <1>3, <1>4

(* Closing and stamping.                                                   *)
LEMMA ClosingTypes ==
  ASSUME IndInv,
         \/ \E meta \in {NoFile, FromRosbag2} :
              CloseWriter(meta) \/ NothingToStamp(meta) \/ CloseThrows(meta)
         \/ MetadataAppears \/ Stamping
  PROVE  TypeOK'
<1> USE BoundsAssumption DEF IndInv, process, history
<1>0. /\ phase \in {"open", "stamping", "writing"}
      /\ Exists(current_bag_dir) /\ episode \in Episodes
  BY DEF CloseWriter, NothingToStamp, MetadataAppears, CloseThrows, Stamping, AttemptFails, Attempting,
     Truncate, WriteDone, CutShort, GiveUp, NameIsOwn, EpisodeInv, TypeOK, Episodes
<1>1. ASSUME NEW meta \in {NoFile, FromRosbag2}, CloseWriter(meta) \/ NothingToStamp(meta) PROVE TypeOK'
  <2>1. DirTypes'
    BY <1>0, <1>1, WithMetaTypes, MetadataValues DEF CloseWriter, NothingToStamp
  <2>2. attempt' \in 0 .. RetryCount
    BY <1>1 DEF CloseWriter, NothingToStamp, TypeOK
  <2>3. outcome' \in [Episodes -> {"none", "stamped", "empty", "failed"}]
    BY <1>0, <1>1 DEF CloseWriter, NothingToStamp, Finish, TypeOK
  <2> QED
    BY <1>1, <2>1, <2>2, <2>3 DEF CloseWriter, NothingToStamp, Finish, TypeOK, DirTypes
<1>2. CASE MetadataAppears
  <2>1. DirTypes'
    BY <1>0, <1>2, WithMetaTypes, MetadataValues DEF MetadataAppears
  <2> QED
    BY <1>2, <2>1 DEF MetadataAppears, TypeOK, DirTypes
<1>3. ASSUME NEW meta \in {NoFile, FromRosbag2}, CloseThrows(meta) PROVE TypeOK'
  <2>1. DirTypes'
    BY <1>0, <1>3, WithMetaTypes, MetadataValues DEF CloseThrows
  <2> QED
    BY <1>3, <2>1 DEF CloseThrows, TypeOK, DirTypes
<1>8. CASE AttemptFails
  <2>1. attempt' \in 0 .. RetryCount
    BY <1>8 DEF AttemptFails, Attempting, Retry, TypeOK
  <2> QED
    BY <1>8, <2>1 DEF AttemptFails, TypeOK
<1>7. CASE GiveUp
  BY <1>0, <1>7 DEF GiveUp, Finish, TypeOK
<1>4. CASE Truncate
  <2>1. DirTypes'
    BY <1>0, <1>4, WithMetaTypes, MetadataValues DEF Truncate
  <2>2. found' \in Metadata
    BY <1>0, <1>4 DEF Truncate, Load, Meta, TypeOK, Exists
  <2> QED
    BY <1>4, <2>1, <2>2 DEF Truncate, TypeOK, DirTypes
<1>5. CASE WriteDone
  <2>1. DirTypes'
    BY <1>0, <1>5, WithMetaTypes, MetadataValues DEF WriteDone, TypeOK
  <2> QED
    BY <1>0, <1>5, <2>1 DEF WriteDone, Finish, TypeOK, DirTypes
<1>6. ASSUME NEW left \in Left, CutShort(left) PROVE TypeOK'
  <2>1. left \in Metadata
    BY <1>6, MetadataValues DEF Left, TypeOK
  <2>2. DirTypes'
    BY <1>0, <1>6, <2>1, WithMetaTypes DEF CutShort
  <2>3. attempt' \in 0 .. RetryCount
    BY <1>6 DEF CutShort, Retry, EpisodeInv, TypeOK
  <2> QED
    BY <1>0, <1>6, <2>2, <2>3 DEF CutShort, TypeOK, DirTypes
<1> QED
  BY <1>1, <1>2, <1>3, <1>4, <1>5, <1>6, <1>7, <1>8 DEF Stamping

(* Deleting, dying and restarting.                                         *)
LEMMA OtherTypes ==
  ASSUME IndInv, DeleteLastBag \/ DeleteFails \/ Crash \/ Restart \/ UNCHANGED vars
  PROVE  TypeOK'
<1> USE BoundsAssumption DEF IndInv, process, history
<1>1. CASE DeleteLastBag
  BY <1>1 DEF DeleteLastBag, TypeOK
<1>2. CASE DeleteFails
  <2>1. dirs[last_bag_dir] \in [maker : 0 .. MaxEpisodes, meta : Metadata]
    BY <1>2 DEF DeleteFails, DeleteAllowed, Exists, TypeOK
  <2>2. [dirs[last_bag_dir] EXCEPT !.meta = NoFile] \in [maker : 0 .. MaxEpisodes, meta : Metadata]
    BY <2>1, MetadataValues
  <2>3. DirTypes'
    BY <1>2, <2>2 DEF DeleteFails, DirTypes, TypeOK
  <2> QED
    BY <1>2, <2>3 DEF DeleteFails, TypeOK, DirTypes
<1>3. CASE Crash
  <2>1. phase = "writing" => episode \in Episodes
    BY DEF EpisodeInv, TypeOK, Episodes
  <2> QED
    BY <1>3, <2>1 DEF Crash, TypeOK
<1>4. CASE Restart
  BY <1>4, MetadataValues DEF Restart, TypeOK
<1>5. CASE UNCHANGED vars
  BY <1>5 DEF vars, TypeOK
<1> QED
  BY <1>1, <1>2, <1>3, <1>4, <1>5

(* So every step keeps the types.                                          *)
LEMMA NextKeepsTypeOK == ASSUME IndInv, [Next]_vars PROVE TypeOK'
BY OpeningTypes, ClosingTypes, OtherTypes DEF Next, Gone

-----------------------------------------------------------------------------
(* Everything but the types.                                               *)

(* What IndInv says of names, outcomes and metadata.                       *)
NamesInv == DirsInv /\ LastInv /\ NameIsOwn
StampsInv == EpisodeInv /\ StampedOrReported /\ InfoLostOnlyWhenCutShort

(* It holds at the start.                                                  *)
LEMMA InitIndInv == Init => IndInv
<1> SUFFICES ASSUME Init PROVE IndInv
  OBVIOUS
<1> USE BoundsAssumption DEF Init
<1>1. TypeOK
  BY InitTypeOK
<1>2. DirsInv
  <2>1. DOMAIN dirs = {} /\ ForeignDirs = {}
    BY DEF ForeignDirs
  <2> QED
    BY <2>1, FS_EmptySet DEF DirsInv
<1>3. EpisodeInv /\ LastInv /\ NameIsOwn
  BY DEF EpisodeInv, LastInv, NameIsOwn
<1>4. StampedOrReported /\ InfoLostOnlyWhenCutShort
  BY DEF StampedOrReported, InfoLostOnlyWhenCutShort
<1> QED
  BY <1>1, <1>2, <1>3, <1>4 DEF IndInv

(* A step that makes and removes no directory.                             *)
LEMMA SameMakersKeepDirs ==
  ASSUME IndInv, DOMAIN dirs' = DOMAIN dirs, \A p \in DOMAIN dirs : dirs'[p].maker = dirs[p].maker,
         episode' = episode, phase' = "named" => phase = "named" /\ current_bag_dir' = current_bag_dir
  PROVE  DirsInv'
<1>1. ForeignDirs' = ForeignDirs
  BY DEF ForeignDirs
<1> QED
  BY <1>1 DEF IndInv, DirsInv, Exists

(* A directory is made: by the episode, at the name it chose, or by        *)
(* another process, at a name of its own.                                  *)
LEMMA NewDirKeeps ==
  ASSUME IndInv, NEW path \in Paths, path \notin DOMAIN dirs, NEW maker,
         NEW meta \in {NoFile, FromRosbag2}, dirs' = WithDir(path, maker, meta),
         \/ /\ maker = Foreign /\ phase' = phase
            /\ Cardinality(ForeignDirs) < MaxForeign
         \/ /\ maker = episode /\ path = current_bag_dir
            /\ phase = "named" /\ phase' \in {"open", "idle"},
         UNCHANGED <<current_bag_dir, last_bag_dir, attempt, found, episode, history>>
  PROVE  NamesInv' /\ StampsInv'
<1> USE DEF IndInv, history
<1>1. /\ DOMAIN dirs' = DOMAIN dirs \cup {path}
      /\ dirs'[path] = [maker |-> maker, meta |-> meta]
      /\ \A p \in DOMAIN dirs : p # path /\ dirs'[p] = dirs[p]
  BY WithDirEffect
<1>2. /\ dirs'[path].maker = maker
      /\ dirs'[path].meta.state = "absent" \/ dirs'[path].meta.info
  BY <1>1 DEF NoFile, FromRosbag2
<1>3. maker = episode /\ phase = "named" => episode > 0 /\ maker # Foreign
  BY DEF EpisodeInv, TypeOK, Foreign
<1>4. DirsInv'
  <2>1. IsFiniteSet(DOMAIN dirs')
    BY <1>1, FS_AddElement DEF DirsInv
  <2>2. Cardinality(ForeignDirs') <= MaxForeign
    <3>1. IsFiniteSet(ForeignDirs)
      BY FS_Subset DEF DirsInv, ForeignDirs
    <3>2. ForeignDirs' = IF maker = Foreign THEN ForeignDirs \cup {path} ELSE ForeignDirs
      BY <1>1, <1>2 DEF ForeignDirs
    <3>3. path \notin ForeignDirs /\ Cardinality(ForeignDirs) \in Nat
      BY <3>1, FS_CardinalityType DEF ForeignDirs
    <3>4. Cardinality(ForeignDirs \cup {path}) = Cardinality(ForeignDirs) + 1
      BY <3>1, <3>3, FS_AddElement
    <3> QED
      BY <1>3, <3>2, <3>3, <3>4, BoundsAssumption DEF DirsInv
  <2>3. \A p \in DOMAIN dirs' : dirs'[p].maker <= episode'
    BY <1>1, <1>2 DEF DirsInv, TypeOK, Foreign
  <2>4. \A p, q \in DOMAIN dirs' :
          dirs'[p].maker = dirs'[q].maker /\ dirs'[p].maker # Foreign => p = q
    BY <1>1, <1>2, <1>3 DEF DirsInv
  <2>5. ASSUME phase' = "named"
        PROVE  /\ current_bag_dir' \in Paths
               /\ \A p \in DOMAIN dirs' : dirs'[p].maker # episode'
               /\ Exists(current_bag_dir)' => dirs'[current_bag_dir'].maker = Foreign
    <3>1. maker = Foreign /\ phase = "named" /\ episode > 0
      BY <2>5 DEF EpisodeInv
    <3> QED
      BY <3>1, <1>1, <1>2 DEF DirsInv, Exists, Foreign
  <2> QED
    BY <2>1, <2>2, <2>3, <2>4, <2>5 DEF DirsInv
<1>5. LastInv'
  BY <1>1 DEF LastInv, Exists
<1>6. NameIsOwn'
  BY <1>1, <1>2 DEF NameIsOwn, Exists
<1>7. EpisodeInv'
  BY DEF EpisodeInv
<1>8. StampedOrReported'
  BY <1>1, <1>2, <1>3 DEF StampedOrReported, Bagged, EpisodeInv
<1>9. InfoLostOnlyWhenCutShort'
  BY <1>1, <1>2 DEF InfoLostOnlyWhenCutShort, Bagged
<1> QED
  BY <1>4, <1>5, <1>6, <1>7, <1>8, <1>9 DEF NamesInv, StampsInv

(* A bag is named.                                                         *)
LEMMA CreateBagDirKeeps ==
  ASSUME IndInv, NEW stamp \in Stamps, CreateBagDir(stamp)
  PROVE  NamesInv' /\ StampsInv'
<1> USE BoundsAssumption DEF IndInv, CreateBagDir, history
<1>1. current_bag_dir' \in Paths /\ ~Exists(current_bag_dir')
  BY FreeNameIsFree
<1>2. ForeignDirs' = ForeignDirs
  BY DEF ForeignDirs
<1>3. DirsInv'
  BY <1>1, <1>2 DEF DirsInv, Exists, TypeOK
<1>4. LastInv' /\ NameIsOwn'
  BY DEF LastInv, NameIsOwn, Exists
<1>5. EpisodeInv'
  BY DEF EpisodeInv, TypeOK, Episodes
<1>6. StampedOrReported' /\ InfoLostOnlyWhenCutShort'
  BY DEF StampedOrReported, InfoLostOnlyWhenCutShort, Bagged
<1> QED
  BY <1>3, <1>4, <1>5, <1>6 DEF NamesInv, StampsInv

(* Another process, a bag that opens, one that fails to, one refused.      *)
LEMMA OpeningKeeps ==
  ASSUME IndInv,
         \/ \E stamp \in Stamps : CreateBagDir(stamp) \/ OtherProcess(stamp)
         \/ OpenBag \/ OpenRefused \/ CancelPendingStart
         \/ \E meta \in {NoFile, FromRosbag2} : OpenFails(meta)
  PROVE  NamesInv' /\ StampsInv'
<1>1. ASSUME NEW stamp \in Stamps, OtherProcess(stamp) PROVE NamesInv' /\ StampsInv'
  <2>1. FreeName(stamp) \in Paths /\ FreeName(stamp) \notin DOMAIN dirs
    BY FreeNameIsFree DEF IndInv, Exists
  <2> QED
    BY <1>1, <2>1, NewDirKeeps DEF OtherProcess, process
<1>2. ASSUME NEW meta \in {NoFile, FromRosbag2}, OpenBag \/ OpenFails(meta)
      PROVE  NamesInv' /\ StampsInv'
  <2>1. current_bag_dir \in Paths /\ current_bag_dir \notin DOMAIN dirs
    BY <1>2 DEF OpenBag, OpenFails, IndInv, DirsInv, Exists
  <2> QED
    BY <1>2, <2>1, NewDirKeeps DEF OpenBag, OpenFails
<1>3. CASE OpenRefused \/ CancelPendingStart
  <2> USE <1>3 DEF OpenRefused, CancelPendingStart, history, IndInv
  <2>1. DirsInv'
    BY SameMakersKeepDirs
  <2>2. LastInv'
    BY DEF LastInv, Exists
  <2>3. NameIsOwn'
    BY DEF NameIsOwn, DirsInv
  <2>4. EpisodeInv' /\ StampedOrReported' /\ InfoLostOnlyWhenCutShort'
    BY DEF EpisodeInv, StampedOrReported, InfoLostOnlyWhenCutShort, Bagged
  <2> QED
    BY <2>1, <2>2, <2>3, <2>4 DEF NamesInv, StampsInv
<1> QED
  BY <1>1, <1>2, <1>3, CreateBagDirKeeps

(* While the bag is open or being stamped, its directory is the one this   *)
(* episode made, and no other directory is of this episode.                *)
LEMMA CurrentIsOwn ==
  ASSUME IndInv, phase \in {"open", "stamping", "writing"}
  PROVE  /\ Exists(current_bag_dir) /\ dirs[current_bag_dir].maker = episode
         /\ episode \in Episodes /\ episode # Foreign /\ outcome[episode] = "none"
         /\ current_bag_dir # NoPath
         /\ \A p \in DOMAIN dirs : p # current_bag_dir => dirs[p].maker # episode
<1>1. /\ Exists(current_bag_dir) /\ dirs[current_bag_dir].maker = episode
      /\ episode > 0 /\ outcome[episode] = "none"
  BY DEF IndInv, NameIsOwn, EpisodeInv
<1>2. episode \in Episodes /\ episode # Foreign
  BY <1>1, BoundsAssumption DEF IndInv, TypeOK, Episodes, Foreign
<1>3. current_bag_dir # NoPath
  BY <1>1, NoPathIsNone DEF IndInv, TypeOK, Exists
<1>4. \A p \in DOMAIN dirs : p # current_bag_dir => dirs[p].maker # episode
  BY <1>1, <1>2 DEF IndInv, DirsInv, Exists
<1> QED
  BY <1>1, <1>2, <1>3, <1>4

(* The metadata of the current bag is written while the episode goes on,   *)
(* or as closing it throws.                                                *)
LEMMA MetaKeeps ==
  ASSUME IndInv, phase \in {"open", "stamping", "writing"},
         phase' \in {"stamping", "writing", "idle", "gone"},
         NEW meta, dirs' = WithMeta(meta),
         UNCHANGED <<current_bag_dir, last_bag_dir, episode, outcome, refused>>,
         interrupted' = interrupted \/ interrupted' = interrupted \cup {episode},
         phase' = "writing" => attempt' < RetryCount /\ (found'.info \/ episode \in interrupted'),
         \/ meta.state = "absent" \/ meta.info \/ episode \in interrupted' \/ phase' = "writing",
         phase = "writing" => phase' = "stamping"
  PROVE  NamesInv' /\ StampsInv'
<1> USE DEF IndInv
<1>1. /\ Exists(current_bag_dir) /\ dirs[current_bag_dir].maker = episode
      /\ episode \in Episodes /\ outcome[episode] = "none"
  BY CurrentIsOwn
<1>2. /\ DOMAIN dirs' = DOMAIN dirs
      /\ dirs'[current_bag_dir] = [maker |-> dirs[current_bag_dir].maker, meta |-> meta]
      /\ \A p \in DOMAIN dirs : p # current_bag_dir => dirs'[p] = dirs[p]
      /\ \A p \in DOMAIN dirs : dirs'[p].maker = dirs[p].maker
  BY <1>1, WithMetaEffect
<1>3. DirsInv'
  BY <1>2, SameMakersKeepDirs
<1>4. LastInv'
  BY <1>2 DEF LastInv, Exists
<1>5. NameIsOwn'
  BY <1>1, <1>2 DEF NameIsOwn, Exists
<1>6. EpisodeInv'
  BY <1>1 DEF EpisodeInv
<1>7. StampedOrReported'
  BY <1>1, <1>2 DEF StampedOrReported, Bagged
<1>8. InfoLostOnlyWhenCutShort'
  <2> SUFFICES ASSUME NEW p \in DOMAIN dirs', Bagged(p)', ~dirs'[p].meta.info
               PROVE  dirs'[p].maker \in interrupted' \/ (phase' = "writing" /\ p = current_bag_dir')
    BY DEF InfoLostOnlyWhenCutShort
  <2>1. CASE p = current_bag_dir
    BY <2>1, <1>1, <1>2 DEF Bagged
  <2>2. CASE p # current_bag_dir
    BY <2>2, <1>2 DEF Bagged, InfoLostOnlyWhenCutShort
  <2> QED
    BY <2>1, <2>2
<1> QED
  BY <1>3, <1>4, <1>5, <1>6, <1>7, <1>8 DEF NamesInv, StampsInv

(* finish_recording ends: the last bag and its outcome are this episode's. *)
LEMMA FinishKeeps ==
  ASSUME IndInv, phase \in {"open", "stamping", "writing"},
         NEW r \in {"stamped", "empty", "failed"}, Finish(r),
         \/ UNCHANGED dirs /\ r # "stamped" /\ phase # "writing"
         \/ \E meta : /\ dirs' = WithMeta(meta)
                      /\ r = "stamped" => meta.custom
                      /\ meta.state = "absent" \/ meta.info \/ episode \in interrupted,
         UNCHANGED <<current_bag_dir, episode, interrupted, refused>>
  PROVE  NamesInv' /\ StampsInv'
<1> USE DEF IndInv, Finish
<1>1. /\ Exists(current_bag_dir) /\ dirs[current_bag_dir].maker = episode
      /\ episode \in Episodes /\ episode # Foreign /\ outcome[episode] = "none"
      /\ \A p \in DOMAIN dirs : p # current_bag_dir => dirs[p].maker # episode
  BY CurrentIsOwn
<1>2. /\ DOMAIN dirs' = DOMAIN dirs
      /\ \A p \in DOMAIN dirs : p # current_bag_dir => dirs'[p] = dirs[p]
      /\ \A p \in DOMAIN dirs : dirs'[p].maker = dirs[p].maker
  BY <1>1, WithMetaEffect
<1>3. /\ r = "stamped" => dirs'[current_bag_dir].meta.custom
      /\ \/ dirs'[current_bag_dir].meta.state = "absent"
         \/ dirs'[current_bag_dir].meta.info
         \/ episode \in interrupted
  <2>1. CASE UNCHANGED dirs /\ r # "stamped" /\ phase # "writing"
    BY <2>1, <1>1 DEF InfoLostOnlyWhenCutShort, Bagged, Exists
  <2>2. ASSUME NEW meta, dirs' = WithMeta(meta), r = "stamped" => meta.custom,
               meta.state = "absent" \/ meta.info \/ episode \in interrupted
        PROVE  <1>3!1 /\ <1>3!2
    <3>1. dirs'[current_bag_dir] = [maker |-> dirs[current_bag_dir].maker, meta |-> meta]
      BY <2>2, <1>1, WithMetaEffect
    <3>2. dirs'[current_bag_dir].meta = meta
      BY <3>1
    <3> QED
      BY <2>2, <3>2
  <2> QED
    BY <2>1, <2>2
<1>4. \A e \in Episodes : outcome'[e] = IF e = episode THEN r ELSE outcome[e]
  BY DEF TypeOK
<1>5. DirsInv'
  BY <1>2, SameMakersKeepDirs
<1>6. LastInv'
  BY <1>1, <1>2, <1>4 DEF LastInv, Exists, EpisodeInv, Episodes, TypeOK
<1>7. NameIsOwn'
  BY DEF NameIsOwn
<1>8. EpisodeInv'
  BY <1>4 DEF EpisodeInv, Episodes, TypeOK
<1>9. StampedOrReported'
  <2> SUFFICES ASSUME NEW p \in DOMAIN dirs', Bagged(p)', outcome'[dirs'[p].maker] = "stamped"
               PROVE  dirs'[p].meta.custom
    BY DEF StampedOrReported
  <2>1. CASE p = current_bag_dir
    BY <2>1, <1>1, <1>2, <1>3, <1>4
  <2>2. CASE p # current_bag_dir
    <3>1. dirs'[p] = dirs[p] /\ dirs[p].maker # episode /\ dirs[p].maker \in Episodes /\ Bagged(p)
      BY <2>2, <1>1, <1>2, BoundsAssumption DEF Bagged, TypeOK, Episodes, Foreign
    <3> QED
      BY <3>1, <1>2, <1>4 DEF StampedOrReported
  <2> QED
    BY <2>1, <2>2
<1>10. InfoLostOnlyWhenCutShort'
  <2> SUFFICES ASSUME NEW p \in DOMAIN dirs', Bagged(p)', ~dirs'[p].meta.info
               PROVE  dirs'[p].maker \in interrupted
    BY DEF InfoLostOnlyWhenCutShort
  <2>1. CASE p = current_bag_dir
    BY <2>1, <1>1, <1>2, <1>3 DEF Bagged
  <2>2. CASE p # current_bag_dir
    BY <2>2, <1>2 DEF Bagged, InfoLostOnlyWhenCutShort
  <2> QED
    BY <2>1, <2>2
<1> QED
  BY <1>5, <1>6, <1>7, <1>8, <1>9, <1>10 DEF NamesInv, StampsInv

(* A step that leaves the directories and the outcomes alone and goes to a *)
(* phase in which nothing is under way, or stays where it is.              *)
LEMMA QuietKeeps ==
  ASSUME IndInv, UNCHANGED <<dirs, episode, outcome, refused>>,
         \/ phase' \in {"idle", "gone"}
         \/ UNCHANGED <<phase, current_bag_dir, found, attempt>>
         \/ phase = "stamping" /\ phase' = "stamping" /\ current_bag_dir' = current_bag_dir,
         last_bag_dir' \in {last_bag_dir, NoPath},
         interrupted \subseteq interrupted',
         phase = "writing" => phase' = "writing" \/ episode \in interrupted'
  PROVE  NamesInv' /\ StampsInv'
<1> USE DEF IndInv
<1>1. DirsInv'
  BY SameMakersKeepDirs
<1>2. LastInv' /\ NameIsOwn'
  BY DEF LastInv, NameIsOwn, Exists
<1>3. EpisodeInv' /\ StampedOrReported'
  BY DEF EpisodeInv, StampedOrReported, Bagged
<1>4. InfoLostOnlyWhenCutShort'
  BY DEF InfoLostOnlyWhenCutShort, Bagged, NameIsOwn
<1> QED
  BY <1>1, <1>2, <1>3, <1>4 DEF NamesInv, StampsInv

(* Closing and stamping.                                                   *)
LEMMA ClosingKeeps ==
  ASSUME IndInv,
         \/ \E meta \in {NoFile, FromRosbag2} :
              CloseWriter(meta) \/ NothingToStamp(meta) \/ CloseThrows(meta)
         \/ MetadataAppears \/ Stamping
  PROVE  NamesInv' /\ StampsInv'
<1> USE DEF process, history
<1>0. /\ NoFile.state = "absent" /\ FromRosbag2.info
  BY DEF NoFile, FromRosbag2
<1>1. ASSUME NEW meta \in {NoFile, FromRosbag2}, CloseWriter(meta) PROVE NamesInv' /\ StampsInv'
  BY <1>0, <1>1, MetaKeeps DEF CloseWriter
<1>2. ASSUME NEW meta \in {NoFile, FromRosbag2}, NothingToStamp(meta) PROVE NamesInv' /\ StampsInv'
  <2>1. dirs' = WithMeta(meta) /\ (meta.state = "absent" \/ meta.info)
    BY <1>0, <1>2 DEF NothingToStamp
  <2> QED
    BY <1>2, <2>1, FinishKeeps DEF NothingToStamp
<1>3. CASE MetadataAppears
  BY <1>0, <1>3, MetaKeeps DEF MetadataAppears
<1>4. ASSUME NEW meta \in {NoFile, FromRosbag2}, CloseThrows(meta) PROVE NamesInv' /\ StampsInv'
  BY <1>0, <1>4, MetaKeeps DEF CloseThrows
<1>5. CASE AttemptFails
  BY <1>5, QuietKeeps DEF AttemptFails, Attempting
<1>6. CASE Truncate
  <2>1. phase = "stamping" /\ attempt' < RetryCount
    BY <1>6 DEF Truncate, Attempting
  <2>2. Exists(current_bag_dir) /\ dirs[current_bag_dir].maker = episode /\ episode # Foreign
    BY <2>1, CurrentIsOwn
  <2>3. Bagged(current_bag_dir)
    BY <1>6, <2>2 DEF Truncate, Meta, Bagged
  <2>4. found'.info \/ episode \in interrupted'
    BY <1>6, <2>1, <2>2, <2>3 DEF Truncate, Load, Meta, IndInv, InfoLostOnlyWhenCutShort, Exists
  <2> QED
    BY <1>6, <2>1, <2>4, MetaKeeps DEF Truncate
<1>7. CASE WriteDone
  <2> DEFINE new == [found EXCEPT !.custom = TRUE]
  <2>1. new.custom /\ (new.info \/ episode \in interrupted)
    BY <1>7 DEF WriteDone, IndInv, EpisodeInv, TypeOK, Metadata
  <2> HIDE DEF new
  <2>2. dirs' = WithMeta(new) /\ phase = "writing" /\ Finish("stamped")
    BY <1>7 DEF WriteDone, new
  <2>3. UNCHANGED <<current_bag_dir, episode, interrupted, refused>>
    BY <1>7 DEF WriteDone
  <2> QED
    BY <2>1, <2>2, <2>3, FinishKeeps
<1>8. ASSUME NEW left \in Left, CutShort(left) PROVE NamesInv' /\ StampsInv'
  BY <1>8, MetaKeeps DEF CutShort
<1>9. CASE GiveUp
  BY <1>9, FinishKeeps DEF GiveUp
<1> QED
  BY <1>1, <1>2, <1>3, <1>4, <1>5, <1>6, <1>7, <1>8, <1>9 DEF Stamping

(* Deleting, dying and restarting.                                         *)
LEMMA OtherKeeps ==
  ASSUME IndInv, DeleteLastBag \/ DeleteFails \/ Crash \/ Restart \/ UNCHANGED vars
  PROVE  NamesInv' /\ StampsInv'
<1> USE DEF process, history
<1>1. CASE DeleteLastBag
  <2> USE <1>1 DEF IndInv, DeleteLastBag, DeleteAllowed
  <2>1. /\ DOMAIN dirs' = DOMAIN dirs \ {last_bag_dir}
        /\ \A p \in DOMAIN dirs' : dirs'[p] = dirs[p]
    OBVIOUS
  <2>2. DirsInv'
    <3>1. IsFiniteSet(DOMAIN dirs')
      BY <2>1, FS_RemoveElement DEF DirsInv
    <3>2. ForeignDirs' = ForeignDirs
      BY <2>1 DEF ForeignDirs, LastInv, Exists
    <3> QED
      BY <2>1, <3>1, <3>2 DEF DirsInv, Exists
  <2>3. LastInv' /\ NameIsOwn'
    BY DEF LastInv, NameIsOwn
  <2>4. EpisodeInv' /\ StampedOrReported' /\ InfoLostOnlyWhenCutShort'
    BY <2>1 DEF EpisodeInv, StampedOrReported, InfoLostOnlyWhenCutShort, Bagged
  <2> QED
    BY <2>2, <2>3, <2>4 DEF NamesInv, StampsInv
<1>2. CASE DeleteFails
  <2> USE <1>2 DEF IndInv, DeleteFails, DeleteAllowed
  <2>1. /\ DOMAIN dirs' = DOMAIN dirs
        /\ \A p \in DOMAIN dirs : p # last_bag_dir => dirs'[p] = dirs[p]
        /\ dirs'[last_bag_dir].maker = dirs[last_bag_dir].maker
        /\ dirs'[last_bag_dir].meta = NoFile
    BY DEF Exists, TypeOK
  <2>2. DirsInv'
    BY <2>1, SameMakersKeepDirs
  <2>3. LastInv' /\ NameIsOwn'
    BY <2>1 DEF LastInv, NameIsOwn, Exists
  <2>4. EpisodeInv'
    BY DEF EpisodeInv
  <2>5. StampedOrReported'
    BY <2>1 DEF StampedOrReported, Bagged, NoFile
  <2>6. InfoLostOnlyWhenCutShort'
    BY <2>1 DEF InfoLostOnlyWhenCutShort, Bagged, NoFile
  <2> QED
    BY <2>2, <2>3, <2>4, <2>5, <2>6 DEF NamesInv, StampsInv
<1>3. CASE Crash
  BY <1>3, QuietKeeps DEF Crash
<1>4. CASE Restart
  BY <1>4, QuietKeeps DEF Restart
<1>5. CASE UNCHANGED vars
  BY <1>5, QuietKeeps DEF vars
<1> QED
  BY <1>1, <1>2, <1>3, <1>4, <1>5

(* IndInv is inductive.                                                    *)
LEMMA NextKeepsIndInv == ASSUME IndInv, [Next]_vars PROVE IndInv'
<1>1. NamesInv' /\ StampsInv'
  BY OpeningKeeps, ClosingKeeps, OtherKeeps DEF Next, Gone
<1> QED
  BY <1>1, NextKeepsTypeOK DEF IndInv, NamesInv, StampsInv

(* So it holds in every reachable state.                                   *)
LEMMA IndInvAlways == Spec => []IndInv
BY InitIndInv, NextKeepsIndInv, PTL DEF Spec

-----------------------------------------------------------------------------
(* The properties, for every value of the constants.                       *)

(* Every variable stays in its type; the attempts stay within              *)
(* kMetadataRetryCount.                                                    *)
THEOREM TypesHold == Spec => []TypeOK
BY IndInvAlways, PTL DEF IndInv

(* However the clock moves and whatever restarts and failed starts left,   *)
(* an episode gets a directory of its own, or another process took it.     *)
THEOREM NamesAreOwn == Spec => []NameIsOwn
BY IndInvAlways, PTL DEF IndInv

(* A bag whose stamp is missing was never reported as stamped.             *)
THEOREM StampsAreThere == Spec => []StampedOrReported
BY IndInvAlways, PTL DEF IndInv

(* rosbag2's entries go missing only in a write that was cut short.        *)
THEOREM InfoIsKept == Spec => []InfoLostOnlyWhenCutShort
BY IndInvAlways, PTL DEF IndInv

(* No step but ~/delete_last_bag removes a directory, and it removes that  *)
(* of the last finished episode.                                           *)
THEOREM DeletesOnlyTheLast == Spec => DeletesOnlyLastFinished
<1> DEFINE Safe == \A p \in DOMAIN dirs \ DOMAIN dirs' : LET e == dirs[p].maker IN
                     /\ e # Foreign
                     /\ outcome[e] # "none"
                     /\ \A f \in Episodes : f > e => outcome[f] = "none"
<1>1. ASSUME IndInv, [Next]_vars PROVE Safe
  <2>1. CASE DeleteLastBag
    <3>1. DOMAIN dirs \ DOMAIN dirs' \subseteq {last_bag_dir} /\ last_bag_dir # NoPath
      BY <2>1 DEF DeleteLastBag, DeleteAllowed
    <3> QED
      BY <1>1, <3>1 DEF IndInv, LastInv
  <2>2. CASE ~DeleteLastBag
    <3>1. DOMAIN dirs \subseteq DOMAIN dirs'
      BY <1>1, <2>2 DEF Next, CreateBagDir, OtherProcess, OpenBag, OpenRefused, OpenFails,
         CancelPendingStart, CloseWriter, NothingToStamp, MetadataAppears, CloseThrows, Stamping,
         AttemptFails, Truncate, WriteDone, CutShort, GiveUp, DeleteFails, Crash, Restart, Gone,
         WithDir, WithMeta, vars
    <3> QED
      BY <3>1
  <2> QED
    BY <2>1, <2>2
<1>2. [][Safe]_vars => DeletesOnlyLastFinished
  BY DEF DeletesOnlyLastFinished
<1> HIDE DEF Safe
<1> QED
  BY <1>1, <1>2, IndInvAlways, PTL DEF Spec

=============================================================================
