------------------------------- MODULE BagFiles -------------------------------
(***************************************************************************)
(* What the recorder does on disk: it names a directory for each bag, lets *)
(* rosbag2 make it, stamps metadata.yaml after the bag is closed, in up to *)
(* ten attempts, and deletes the last bag on request.  Another process may *)
(* use the same base directory, the clock may be set back, a write may     *)
(* fail half way, and the process may die at any point and be restarted.   *)
(*                                                                         *)
(* A name is a reading of the clock, at the resolution of the name style,  *)
(* and a suffix.  metadata.yaml is reduced to whether it parses, whether   *)
(* it has rosbag2's own entries, and whether it has the recorder's.  The   *)
(* disk and rosbag2, which refuses to open a bag in a directory that       *)
(* exists, are external.                                                   *)
(***************************************************************************)
EXTENDS Integers, FiniteSets

CONSTANTS
    Stamps,        \* readings of the clock
    RetryCount,    \* kMetadataRetryCount
    MaxEpisodes,   \* bound: starts
    MaxForeign,    \* bound: directories made by another process
    MaxRestarts    \* bound: restarts

ASSUME StampsAssumption == Stamps \subseteq Nat \ {0}
ASSUME BoundsAssumption ==
    /\ RetryCount \in Nat \ {0}
    /\ MaxEpisodes \in Nat
    /\ MaxForeign \in Nat
    /\ MaxRestarts \in Nat

VARIABLES
    dirs,              \* the directories under bag_base_, by path
    phase,             \* what the recorder is doing
    current_bag_dir,   \* current_bag_dir_
    last_bag_dir,      \* last_bag_dir_: NoPath when empty
    attempt,           \* write_metadata's attempt
    found,             \* the entries of the metadata it has loaded
  \* history
    episode,           \* starts so far
    outcome,           \* what became of each episode's stamp
    interrupted,       \* episodes with a write of metadata.yaml cut short
    refused,           \* makers of the directories rosbag2 refused to open in
    restarts

process == <<phase, current_bag_dir, last_bag_dir, attempt, found>>
history == <<outcome, interrupted, refused, restarts>>
vars == <<dirs, process, episode, history>>

-----------------------------------------------------------------------------
Episodes == 1 .. MaxEpisodes
Foreign == 0
MaxSuffix == MaxEpisodes + MaxForeign
Paths == [stamp : Stamps, suffix : 0 .. MaxSuffix]
NoPath == [stamp |-> 0, suffix |-> 0]

(* metadata.yaml: there or not, as YAML, and the entries it has.           *)
Metadata == [state : {"absent", "parses", "broken"}, info : BOOLEAN, custom : BOOLEAN]
NoFile == [state |-> "absent", info |-> FALSE, custom |-> FALSE]
Empty == [state |-> "parses", info |-> FALSE, custom |-> FALSE]
Broken == [state |-> "broken", info |-> FALSE, custom |-> FALSE]
FromRosbag2 == [state |-> "parses", info |-> TRUE, custom |-> FALSE]

Exists(path) == path \in DOMAIN dirs
ForeignDirs == {p \in DOMAIN dirs : dirs[p].maker = Foreign}
WithDir(path, maker, meta) ==
    [p \in DOMAIN dirs \cup {path} |-> IF p = path THEN [maker |-> maker, meta |-> meta]
                                      ELSE dirs[p]]
WithMeta(meta) == [dirs EXCEPT ![current_bag_dir].meta = meta]
Meta == dirs[current_bag_dir].meta

Init ==
    /\ dirs = [p \in {} |-> NoFile]
    /\ phase = "idle"
    /\ current_bag_dir = NoPath
    /\ last_bag_dir = NoPath
    /\ attempt = 0
    /\ found = NoFile
    /\ episode = 0
    /\ outcome = [e \in Episodes |-> "none"]
    /\ interrupted = {}
    /\ refused = {}
    /\ restarts = 0

-----------------------------------------------------------------------------
(* Naming and opening.                                                     *)

(* Seeded fault: the name is taken as it is.                               *)
BareName(stamp) == [stamp |-> stamp, suffix |-> 0]

(* The first name that does not exist yet.                                 *)
FreeName(stamp) ==
    LET free == {n \in 0 .. MaxSuffix : ~Exists([stamp |-> stamp, suffix |-> n])}
    IN  [stamp |-> stamp, suffix |-> CHOOSE n \in free : \A m \in free : n <= m]

(* start_recording names the bag; the directory is not made yet.           *)
CreateBagDir(stamp) ==
    /\ phase = "idle"
    /\ episode < MaxEpisodes
    /\ episode' = episode + 1
    /\ current_bag_dir' = FreeName(stamp)
    /\ phase' = "named"
    /\ UNCHANGED <<dirs, last_bag_dir, attempt, found, history>>

(* open_writer, at once or from the timer of a deferred start.             *)
OpenBag ==
    /\ phase = "named"
    /\ ~Exists(current_bag_dir)
    /\ dirs' = WithDir(current_bag_dir, episode, NoFile)
    /\ phase' = "open"
    /\ UNCHANGED <<current_bag_dir, last_bag_dir, attempt, found, episode, history>>

OpenRefused ==
    /\ phase = "named"
    /\ Exists(current_bag_dir)
    /\ refused' = refused \cup {dirs[current_bag_dir].maker}
    /\ phase' = "idle"
    /\ UNCHANGED <<dirs, current_bag_dir, last_bag_dir, attempt, found, episode,
                   outcome, interrupted, restarts>>

(* Opening fails after the directory was made, or writing a retained       *)
(* sample does: the directory stays, with the metadata.yaml of the writer  *)
(* that the catch block closes, if there is one by then.                   *)
OpenFails(meta) ==
    /\ phase = "named"
    /\ ~Exists(current_bag_dir)
    /\ dirs' = WithDir(current_bag_dir, episode, meta)
    /\ phase' = "idle"
    /\ UNCHANGED <<current_bag_dir, last_bag_dir, attempt, found, episode, history>>

(* The deferred start is cancelled.                                        *)
CancelPendingStart ==
    /\ phase = "named"
    /\ phase' = "idle"
    /\ UNCHANGED <<dirs, current_bag_dir, last_bag_dir, attempt, found, episode,
                   history>>

-----------------------------------------------------------------------------
(* Closing and stamping.                                                   *)

(* finish_recording closes the bag, with which rosbag2 writes              *)
(* metadata.yaml, sooner or later, and has something to stamp it with.     *)
CloseWriter(meta) ==
    /\ phase = "open"
    /\ dirs' = WithMeta(meta)
    /\ phase' = "stamping"
    /\ attempt' = 0
    /\ UNCHANGED <<current_bag_dir, last_bag_dir, found, episode, history>>

MetadataAppears ==
    /\ phase = "stamping"
    /\ Meta.state = "absent"
    /\ dirs' = WithMeta(FromRosbag2)
    /\ UNCHANGED <<process, episode, history>>

(* Closing the bag throws out of finish_recording, before or after rosbag2 *)
(* has written metadata.yaml.                                              *)
CloseThrows(meta) ==
    /\ phase = "open"
    /\ dirs' = WithMeta(meta)
    /\ phase' \in {"idle", "gone"}
    /\ UNCHANGED <<current_bag_dir, last_bag_dir, attempt, found, episode,
                   history>>

(* Seeded fault: last_bag_dir_ stays with the bag before.                  *)
FinishKeepsLast(result) ==
    /\ outcome' = [outcome EXCEPT ![episode] = result]
    /\ last_bag_dir' = IF last_bag_dir = NoPath THEN current_bag_dir ELSE last_bag_dir
    /\ phase' = "idle"

(* The end of finish_recording.                                            *)
Finish(result) ==
    /\ outcome' = [outcome EXCEPT ![episode] = result]
    /\ last_bag_dir' = current_bag_dir
    /\ phase' = "idle"

(* There is no prompt, contract text or goal id to write.                  *)
NothingToStamp(meta) ==
    /\ phase = "open"
    /\ dirs' = WithMeta(meta)
    /\ Finish("empty")
    /\ UNCHANGED <<current_bag_dir, attempt, found, episode, interrupted, refused,
                   restarts>>

(* Seeded fault: the loop runs once too often.                             *)
AttemptingOnceMore == phase = "stamping" /\ attempt <= RetryCount

(* write_metadata is at the head of its loop.                              *)
Attempting == phase = "stamping" /\ attempt < RetryCount

(* Seeded fault: an attempt that finds no file is not counted.             *)
RetryForFree == attempt' = IF Meta.state = "absent" THEN attempt ELSE attempt + 1

(* The attempt ends without success, the next one follows after a while.   *)
Retry == attempt' = attempt + 1

(* metadata.yaml is not there yet, does not parse, or cannot be opened for *)
(* writing, which leaves it as it is.                                      *)
AttemptFails ==
    /\ Attempting
    /\ Retry
    /\ UNCHANGED <<dirs, phase, current_bag_dir, last_bag_dir, found, episode,
                   history>>

(* Seeded fault: the stamp starts from an empty document.                  *)
LoadNothing == found' = Empty

(* The metadata as loaded; whatever is not a mapping becomes an empty one. *)
Load == found' = Meta

(* The document is loaded, and opening the file for writing truncates it.  *)
Truncate ==
    /\ Attempting
    /\ Meta.state = "parses"
    /\ Load
    /\ dirs' = WithMeta(Empty)
    /\ phase' = "writing"
    /\ UNCHANGED <<current_bag_dir, last_bag_dir, attempt, episode, history>>

(* Everything reaches the file.                                            *)
WriteDone ==
    /\ phase = "writing"
    /\ dirs' = WithMeta([found EXCEPT !.custom = TRUE])
    /\ Finish("stamped")
    /\ UNCHANGED <<current_bag_dir, attempt, found, episode, interrupted, refused,
                   restarts>>

(* Seeded fault: the stream is not checked after it is closed.             *)
CutShortUnchecked(left) ==
    /\ phase = "writing"
    /\ dirs' = WithMeta(left)
    /\ Finish("stamped")
    /\ interrupted' = interrupted \cup {episode}
    /\ UNCHANGED <<current_bag_dir, attempt, found, episode, refused, restarts>>

(* The write fails at the start or half way: the file is empty, no longer  *)
(* YAML, lacks the new entries, or lacks nothing but its last line break.  *)
CutShort(left) ==
    /\ phase = "writing"
    /\ dirs' = WithMeta(left)
    /\ Retry
    /\ phase' = "stamping"
    /\ interrupted' = interrupted \cup {episode}
    /\ UNCHANGED <<current_bag_dir, last_bag_dir, found, episode, outcome, refused,
                   restarts>>

(* write_metadata throws, and finish_recording goes on with the error.     *)
GiveUp ==
    /\ phase = "stamping"
    /\ attempt = RetryCount
    /\ Finish("failed")
    /\ UNCHANGED <<dirs, current_bag_dir, attempt, found, episode, interrupted,
                   refused, restarts>>

-----------------------------------------------------------------------------
(* Deleting.                                                               *)

(* on_delete_last_bag_service, which is refused while recording.           *)
DeleteAllowed ==
    phase \in {"idle", "named"} /\ last_bag_dir # NoPath /\ Exists(last_bag_dir)

DeleteLastBag ==
    /\ DeleteAllowed
    /\ dirs' = [p \in DOMAIN dirs \ {last_bag_dir} |-> dirs[p]]
    /\ last_bag_dir' = NoPath
    /\ UNCHANGED <<phase, current_bag_dir, attempt, found, episode, history>>

(* remove_all fails half way: the directory stays, and so does its name.   *)
DeleteFails ==
    /\ DeleteAllowed
    /\ dirs' = [dirs EXCEPT ![last_bag_dir].meta = NoFile]
    /\ UNCHANGED <<process, episode, history>>

-----------------------------------------------------------------------------
(* The rest of the world.                                                  *)

(* Another recorder makes a bag in the same base directory.                *)
OtherProcess(stamp) ==
    /\ Cardinality(ForeignDirs) < MaxForeign
    /\ dirs' = WithDir(FreeName(stamp), Foreign, NoFile)
    /\ UNCHANGED <<process, episode, history>>

Crash ==
    /\ phase # "gone"
    /\ phase' = "gone"
    /\ interrupted' = IF phase = "writing" THEN interrupted \cup {episode} ELSE interrupted
    /\ UNCHANGED <<dirs, current_bag_dir, last_bag_dir, attempt, found, episode,
                   outcome, refused, restarts>>

(* A launch respawn starts the node again.                                 *)
Restart ==
    /\ phase = "gone"
    /\ restarts < MaxRestarts
    /\ restarts' = restarts + 1
    /\ phase' = "idle"
    /\ current_bag_dir' = NoPath
    /\ last_bag_dir' = NoPath
    /\ attempt' = 0
    /\ found' = NoFile
    /\ UNCHANGED <<dirs, episode, outcome, interrupted, refused>>

-----------------------------------------------------------------------------
Left == {Empty, Broken, found, [found EXCEPT !.custom = TRUE]}

Gone == phase = "gone" /\ UNCHANGED vars

Stamping ==
    \/ AttemptFails \/ Truncate \/ WriteDone
    \/ \E left \in Left : CutShort(left)
    \/ GiveUp

Next ==
    \/ \E stamp \in Stamps : CreateBagDir(stamp) \/ OtherProcess(stamp)
    \/ OpenBag \/ OpenRefused \/ CancelPendingStart
    \/ \E meta \in {NoFile, FromRosbag2} :
        OpenFails(meta) \/ CloseWriter(meta) \/ NothingToStamp(meta) \/ CloseThrows(meta)
    \/ MetadataAppears
    \/ Stamping
    \/ DeleteLastBag \/ DeleteFails
    \/ Crash \/ Restart
    \/ Gone

Spec == Init /\ [][Next]_vars

(* The loop of write_metadata runs on: the disk answers, yes or no.        *)
FairSpec == Spec /\ WF_vars(Stamping)

-----------------------------------------------------------------------------
(* Properties.                                                             *)

(* Every variable stays in its type.                                       *)
TypeOK ==
    /\ DOMAIN dirs \subseteq Paths
    /\ \A p \in DOMAIN dirs : dirs[p] \in [maker : 0 .. MaxEpisodes, meta : Metadata]
    /\ phase \in {"idle", "named", "open", "stamping", "writing", "gone"}
    /\ current_bag_dir \in Paths \cup {NoPath}
    /\ last_bag_dir \in Paths \cup {NoPath}
    /\ attempt \in 0 .. RetryCount
    /\ found \in Metadata
    /\ episode \in 0 .. MaxEpisodes
    /\ outcome \in [Episodes -> {"none", "stamped", "empty", "failed"}]
    /\ interrupted \subseteq Episodes
    /\ refused \subseteq 0 .. MaxEpisodes
    /\ restarts \in 0 .. MaxRestarts

(* An episode is never refused its directory because of a bag of this node *)
(* or of a node it was restarted from, however the clock moved and         *)
(* whatever failed starts left behind, and it records and stamps in a      *)
(* directory it made itself.                                               *)
NameIsOwn ==
    /\ refused \subseteq {Foreign}
    /\ phase \in {"open", "stamping", "writing"} =>
        Exists(current_bag_dir) /\ dirs[current_bag_dir].maker = episode

Bagged(p) == dirs[p].maker # Foreign /\ dirs[p].meta.state # "absent"

(* If write_metadata returned, the recorder's entries are in the file, so  *)
(* an episode whose stamp is missing was reported as an error.             *)
StampedOrReported ==
    \A p \in DOMAIN dirs :
        Bagged(p) /\ outcome[dirs[p].maker] = "stamped" => dirs[p].meta.custom

(* The stamp takes nothing from metadata.yaml: what rosbag2 wrote is       *)
(* missing only while the file is being written again, or after that was   *)
(* cut short by an error or a crash.                                       *)
InfoLostOnlyWhenCutShort ==
    \A p \in DOMAIN dirs :
        Bagged(p) /\ ~dirs[p].meta.info =>
            \/ dirs[p].maker \in interrupted
            \/ phase = "writing" /\ p = current_bag_dir

(* A directory that disappears was the bag of the last episode that was    *)
(* finished: not one being recorded, not an earlier one, not a stranger's. *)
DeletesOnlyLastFinished ==
    [][\A p \in DOMAIN dirs \ DOMAIN dirs' : LET e == dirs[p].maker IN
        /\ e # Foreign
        /\ outcome[e] # "none"
        /\ \A f \in Episodes : f > e => outcome[f] = "none"]_vars

(* finish_recording gets through write_metadata, whether metadata.yaml     *)
(* appears or not and whatever the disk does to it, unless it dies there.  *)
StampTerminates ==
    phase \in {"stamping", "writing"} ~> phase \notin {"stamping", "writing"}

-----------------------------------------------------------------------------
(* The inductive invariant that BagFiles_proofs proves.                    *)

(* An episode makes at most one directory, and another process only so     *)
(* many, so there is always a suffix left; a name that was free when it    *)
(* was chosen can only have been taken by another process since.           *)
DirsInv ==
    /\ IsFiniteSet(DOMAIN dirs)
    /\ Cardinality(ForeignDirs) <= MaxForeign
    /\ \A p \in DOMAIN dirs : dirs[p].maker <= episode
    /\ \A p, q \in DOMAIN dirs :
        dirs[p].maker = dirs[q].maker /\ dirs[p].maker # Foreign => p = q
    /\ phase = "named" =>
        /\ current_bag_dir \in Paths
        /\ \A p \in DOMAIN dirs : dirs[p].maker # episode
        /\ Exists(current_bag_dir) => dirs[current_bag_dir].maker = Foreign

(* Only the episode under way has its outcome, and its metadata, to come.  *)
EpisodeInv ==
    /\ phase \in {"named", "open", "stamping", "writing"} =>
        episode > 0 /\ outcome[episode] = "none"
    /\ \A e \in Episodes : e > episode => outcome[e] = "none"
    /\ phase = "writing" => attempt < RetryCount
    /\ phase = "writing" /\ ~found.info => episode \in interrupted

(* last_bag_dir_ is the directory of the last episode that was finished.   *)
LastInv ==
    last_bag_dir # NoPath =>
        /\ Exists(last_bag_dir)
        /\ LET e == dirs[last_bag_dir].maker IN
            /\ e # Foreign
            /\ outcome[e] # "none"
            /\ \A f \in Episodes : f > e => outcome[f] = "none"

IndInv ==
    TypeOK /\ DirsInv /\ EpisodeInv /\ LastInv
    /\ NameIsOwn /\ StampedOrReported /\ InfoLostOnlyWhenCutShort

-----------------------------------------------------------------------------
(* Claims of the source that the code does not keep.                       *)

(* The stamp only adds to the custom_data of the bag's metadata.           *)
StampKeepsBagInfo ==
    \A p \in DOMAIN dirs :
        Bagged(p) /\ outcome[dirs[p].maker] = "stamped" => dirs[p].meta.info

=============================================================================
