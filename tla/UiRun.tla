------------------------------- MODULE UiRun -------------------------------
(***************************************************************************)
(* A cleanup run of the UI (_run_worker of ui/server.py): one thread does  *)
(* the cleans that were ticked, in RUN_ORDER, and goes on with the next    *)
(* one when one fails.  The bucket and its owners, and the dedup clean, are*)
(* those of Dedup; the other cleans act on the same bucket and on the      *)
(* quarantine, where an earlier run may have left a batch.                 *)
(*                                                                         *)
(* A clean is a step per object moved and per batch purged, which may fail *)
(* half-way.  What owners do between the calls of one move, and who else   *)
(* works on the bucket, is Quarantine's subject; the gate, UiGate's.       *)
(***************************************************************************)
EXTENDS Dedup, Integers

CONSTANTS Matched      \* keys the rules match

ASSUME MatchedAssumption == Matched \subseteq Keys \ Protected

VARIABLES
    clean,     \* the clean at work or the last one that was, "none" before
    busy,      \* is it at work?
    failed,    \* had_error
    vault,     \* batch -> key -> the content in quarantine
    manifest,  \* batch -> its manifests (none or one), sets of keys
    cands,     \* quarantine: candidates still to move
    rest,      \* purge, restore: batches still to do
    purged,    \* history: contents a purge deleted a copy of, with none in the bucket
    outbid,    \* history: unmatched keys dedup gave up for a matched one
    dropped    \* history: batches a purge went through with an error, which is dropped

run     == <<clean, busy, failed, vault, manifest, cands, rest, purged, outbid, dropped>>
runVars == <<vars, run>>

RunOrder == [none |-> 0, dedup |-> 1, multipart |-> 2, quarantine |-> 3,
             purge |-> 4, restore |-> 5]

Batches == {"old", "new"}               \* an earlier run's and this run's

HeldIn(b) == {k \in Keys : vault[b][k] # {}}
Listed    == {b \in Batches : manifest[b] # {}}
InVault   == UNION {vault[b][k] : b \in Batches, k \in Keys}

(* An owner may have stored an object anew after the old batch was made.   *)
RunInit == /\ Init
           /\ clean = "none" /\ busy = FALSE /\ failed = FALSE
           /\ \E held \in [Matched -> Maybe(Contents)] :
                 vault = [b \in Batches |-> [k \in Keys |->
                            IF b = "old" /\ k \in Matched THEN held[k] ELSE {}]]
           /\ manifest = [b \in Batches |-> IF HeldIn(b) = {} THEN {} ELSE {HeldIn(b)}]
           /\ mine = [k \in Keys |-> IF bucket[k] = {} THEN vault["old"][k]
                                                      ELSE ContentOf(bucket[k])]
           /\ touched = UNION {ContentOf(bucket[k]) : k \in HeldIn("old")}
           /\ cands = {} /\ rest = {} /\ purged = {} /\ outbid = {} /\ dropped = {}

-----------------------------------------------------------------------------
(* The next clean that was ticked.  What the last one had listed, chosen   *)
(* and met is gone with it.                                                *)
Begin(name) ==
    /\ ~busy /\ RunOrder[name] > RunOrder[clean]
    /\ clean' = name
    /\ ahead' = Keys /\ listed' = [k \in Keys |-> {}]
    /\ todo' = {} /\ spared' = {}
    /\ UNCHANGED <<bucket, clock, step, keep, mine, touched>>

At(name) == busy /\ clean = name

(* It returns, or the worker catches what it raised. *)
Return   == busy' = FALSE /\ UNCHANGED failed
Fail     == busy' = FALSE /\ failed' = TRUE
GoOn     == UNCHANGED <<busy, failed>>

BeginDedup ==
    /\ Begin("dedup") /\ busy' = TRUE
    /\ UNCHANGED <<failed, vault, manifest, cands, rest, purged, outbid, dropped>>

(* The steps of Dedup. *)
DedupStep ==
    /\ At("dedup")
    /\ \/ (\E k \in Keys : ListKey(k)) /\ GoOn /\ UNCHANGED outbid
       \/ /\ ChooseRedundant /\ GoOn
          /\ outbid' = {k \in todo' \ Matched : \E m \in Group(k) \cap Matched : Kept(m)}
       \/ DeleteChunk /\ GoOn /\ UNCHANGED outbid
       \/ Finish /\ Return /\ UNCHANGED outbid
       \/ Stop /\ Fail /\ UNCHANGED outbid
    /\ UNCHANGED <<clean, vault, manifest, cands, rest, purged, dropped>>

(* step_multipart: see Multipart; no object and no batch is concerned. *)
MultipartClean ==
    /\ Begin("multipart")
    /\ Return \/ Fail
    /\ UNCHANGED <<vault, manifest, cands, rest, purged, outbid, dropped>>

-----------------------------------------------------------------------------
(* step_quarantine: the scan finds nothing, raises or goes beyond the      *)
(* guardrail, or finds the candidates.                                     *)
BeginQuarantine ==
    /\ Begin("quarantine")
    /\ LET found == {k \in Matched : bucket[k] # {}}
       IN  \/ found = {} /\ Return /\ UNCHANGED cands
           \/ Fail /\ UNCHANGED cands
           \/ found # {} /\ busy' = TRUE /\ UNCHANGED failed /\ cands' = found
    /\ UNCHANGED <<vault, manifest, rest, purged, outbid, dropped>>

(* Mutant of MoveOut: the delete comes first. *)
MoveDeletesFirst(k) ==
    /\ At("quarantine") /\ k \in cands /\ bucket[k] # {}
    /\ bucket' = [bucket EXCEPT ![k] = {}]
    /\ \/ /\ vault' = [vault EXCEPT !["new"][k] = ContentOf(bucket[k])]
          /\ cands' = cands \ {k} /\ GoOn
       \/ UNCHANGED vault /\ cands' = {} /\ Fail
    /\ UNCHANGED <<clock, step, keep, ahead, listed, todo, spared, mine, touched>>
    /\ UNCHANGED <<clean, manifest, rest, purged, outbid, dropped>>

(* _move of one object: copied, then deleted unless that fails. *)
MoveOut(k) ==
    /\ At("quarantine") /\ k \in cands /\ bucket[k] # {}
    /\ vault' = [vault EXCEPT !["new"][k] = ContentOf(bucket[k])]
    /\ \/ bucket' = [bucket EXCEPT ![k] = {}] /\ cands' = cands \ {k} /\ GoOn
       \/ UNCHANGED bucket /\ cands' = {} /\ Fail
    /\ UNCHANGED <<clock, step, keep, ahead, listed, todo, spared, mine, touched>>
    /\ UNCHANGED <<clean, manifest, rest, purged, outbid, dropped>>

WriteManifest ==
    /\ At("quarantine") /\ cands = {}
    /\ manifest' = [manifest EXCEPT !["new"] = {HeldIn("new")}]
    /\ Return
    /\ UNCHANGED vars
    /\ UNCHANGED <<clean, vault, cands, rest, purged, outbid, dropped>>

-----------------------------------------------------------------------------
(* step_purge and step_restore list the batches ... *)
BeginBatches(name, batches) ==
    /\ Begin(name) /\ busy' = TRUE
    /\ rest' = batches
    /\ UNCHANGED <<failed, vault, manifest, cands, purged, outbid, dropped>>

(* Forced, every batch is purged; else those that are due: this run's only *)
(* with a retention of no days, and then the earlier one is due as well.   *)
BeginPurge == \E due \in {{}, {"old"}, Batches} : BeginBatches("purge", Listed \cap due)

BeginRestore == BeginBatches("restore", Listed)

(* ... and return when they are through with them, oldest first. *)
NoMoreBatches == /\ At("purge") \/ At("restore")
                 /\ rest = {} /\ Return
                 /\ UNCHANGED vars
                 /\ UNCHANGED <<clean, vault, manifest, cands, rest, purged, outbid, dropped>>

Oldest(b) == b \in rest /\ ("old" \in rest => b = "old")

(* The contents under these keys that are not in the bucket. *)
LastOf(b, keys) == (UNION {vault[b][k] : k \in keys}) \ Stored

(* Mutant of PurgeBatch: the manifest stays. *)
PurgeKeepsManifest(b) ==
    /\ At("purge") /\ Oldest(b)
    /\ \E keys \in manifest[b] : \E gone \in SUBSET keys :
          /\ vault' = [vault EXCEPT ![b] = [k \in Keys |-> IF k \in gone THEN {} ELSE @[k]]]
          /\ purged' = purged \cup LastOf(b, gone)
          /\ \/ gone = keys /\ rest' = rest \ {b} /\ GoOn
             \/ rest' = {} /\ Fail
    /\ UNCHANGED vars
    /\ UNCHANGED <<clean, manifest, cands, outbid, dropped>>

(* Every request of a batch was answered.  The manifest's own deletion may *)
(* have met an error, too, and the line for the audit log may raise.       *)
Answered(b, complete) ==
    /\ \/ /\ manifest' = [manifest EXCEPT ![b] = {}]
          /\ dropped' = IF complete THEN dropped ELSE dropped \cup {b}
       \/ UNCHANGED manifest /\ dropped' = dropped \cup {b}
    /\ \/ rest' = rest \ {b} /\ GoOn
       \/ rest' = {} /\ Fail

(* Delete the copies a batch lists and its manifest.  What a request       *)
(* reports an error for stays, and the purge goes on all the same          *)
(* (s3.py:52-55); a request that raises ends the clean.                    *)
PurgeBatch(b) ==
    /\ At("purge") /\ Oldest(b)
    /\ \E keys \in manifest[b] : \E gone \in SUBSET keys :
          /\ vault' = [vault EXCEPT ![b] = [k \in Keys |-> IF k \in gone THEN {} ELSE @[k]]]
          /\ purged' = purged \cup LastOf(b, gone)
          /\ \/ Answered(b, gone = keys)
             \/ UNCHANGED <<manifest, dropped>> /\ rest' = {} /\ Fail
    /\ UNCHANGED vars
    /\ UNCHANGED <<clean, cands, outbid>>

(* _restore_one: copied over whatever is there, and deleted in quarantine  *)
(* unless that fails.  The object is as new; its etag, which only dedup    *)
(* reads, before, does not matter any more.                                *)
RestoreOne(b, k) ==
    /\ At("restore") /\ Oldest(b) /\ \E keys \in manifest[b] : k \in keys
    /\ vault[b][k] # {}
    /\ bucket' = [bucket EXCEPT ![k] =
                     {[content |-> c, whole |-> TRUE, modified |-> clock] : c \in vault[b][k]}]
    /\ \/ vault' = [vault EXCEPT ![b][k] = {}] /\ GoOn /\ UNCHANGED rest
       \/ UNCHANGED vault /\ rest' = {} /\ Fail
    /\ UNCHANGED <<clock, step, keep, ahead, listed, todo, spared, mine, touched>>
    /\ UNCHANGED <<clean, manifest, cands, purged, outbid, dropped>>

(* Every listed object is back, so the manifest goes. *)
DropManifest(b) ==
    /\ At("restore") /\ Oldest(b)
    /\ \A keys \in manifest[b] : keys \cap HeldIn(b) = {}
    /\ manifest' = [manifest EXCEPT ![b] = {}]
    /\ rest' = rest \ {b}
    /\ GoOn
    /\ UNCHANGED vars
    /\ UNCHANGED <<clean, vault, cands, purged, outbid, dropped>>

(* An object to move has gone, or a storage call raises: the clean stops   *)
(* where it is, and the next one begins.                                   *)
Raise == /\ busy /\ clean # "dedup"
         /\ Fail
         /\ cands' = {} /\ rest' = {}
         /\ UNCHANGED vars
         /\ UNCHANGED <<clean, vault, manifest, purged, outbid, dropped>>

Owner(k) == (Store(k) \/ Remove(k)) /\ UNCHANGED run

RunNext == \/ BeginDedup \/ DedupStep \/ MultipartClean
           \/ BeginQuarantine \/ WriteManifest
           \/ BeginPurge \/ BeginRestore \/ NoMoreBatches \/ Raise
           \/ \E k \in Keys : MoveOut(k) \/ Owner(k)
           \/ \E b \in Batches : PurgeBatch(b) \/ DropManifest(b) \/ \E k \in Keys : RestoreOne(b, k)

RunSpec == RunInit /\ [][RunNext]_runVars

-----------------------------------------------------------------------------
RunTypeOK == /\ TypeOK
             /\ clean \in DOMAIN RunOrder
             /\ busy \in BOOLEAN /\ failed \in BOOLEAN
             /\ vault \in [Batches -> [Keys -> Maybe(Contents)]]
             /\ manifest \in [Batches -> Maybe(SUBSET Keys)]
             /\ cands \in SUBSET Matched
             /\ rest \in SUBSET Batches
             /\ purged \in SUBSET Contents
             /\ outbid \in SUBSET Keys /\ dropped \in SUBSET Batches

(* Wherever cleans stop, and whatever the next ones do after that, a       *)
(* content no owner touched is in the bucket or in quarantine, unless a    *)
(* purge deleted a copy of it when the bucket had none (dedup.py:77-80,    *)
(* quarantine.py:3-6, server.py:543-544).  Objects stored beside a copy in *)
(* quarantine count as touched: a restore overwrites them.                 *)
QuietContentsStay == Owned \ touched \subseteq Stored \cup InVault \cup purged

(* What no rule matches stays in the bucket, as a content: quarantine and  *)
(* purge do not take the copy that dedup left of it.  Except when dedup    *)
(* gave the unmatched key up for a matched one, which quarantine then      *)
(* moves and a forced purge deletes in the same run.                       *)
UnmatchedContentsStay ==
    \A k \in (Keys \ Matched) \ outbid : mine[k] \ touched \subseteq Stored

(* As long as no clean failed, every object in quarantine is listed, and   *)
(* nothing else is, after every clean; and when restore was the last one,  *)
(* which follows purge (server.py:543-545), no batch is left and what the  *)
(* quarantine held is back.  Except for batches where a purge dropped an   *)
(* error: what it could not delete may stay there with no manifest.        *)
LeftIn(batches) == UNION {vault[b][k] : b \in batches, k \in Keys}
RunAddsUp ==
    ~busy /\ ~failed =>
        /\ \A b \in Batches \ dropped : HeldIn(b) = UNION manifest[b]
        /\ clean = "restore" =>
              Listed = {} /\ Owned \ (touched \cup purged) \subseteq Stored \cup LeftIn(dropped)
=============================================================================
