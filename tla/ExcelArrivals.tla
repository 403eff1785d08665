---------------------------- MODULE ExcelArrivals ----------------------------
(***************************************************************************)
(* How Excel files reach the middleware by themselves: FolderWatchAgent    *)
(* (apps/excel_intake/folder_watcher.py) and EmailIngestAgent              *)
(* (email_agent.py).  What becomes of the rows of a file is in ExcelIntake;*)
(* here one run of the pipeline is one step, and the question is which     *)
(* files and messages are picked up, how often, and which never.           *)
(*                                                                         *)
(* The watcher has two threads: watchdog's handler of "created" events,    *)
(* and the main thread, which lists the folder once after it has started   *)
(* the observer - or again and again when watchdog is not installed.       *)
(* Checkers are the Celery workers that may execute check_email_inbox.     *)
(*                                                                         *)
(* A definition directly followed by the one whose name it extends is a    *)
(* faulty variant, part of no specification: it shows which slip in the    *)
(* code a property would notice.                                           *)
(***************************************************************************)
EXTENDS Naturals, Sequences, FiniteSets, FiniteSetsExt

CONSTANTS
  Files,      \* contents; in the folder each is one path
  Mailed,     \* those that are sent by e-mail
  NoFile,     \* a message without an Excel attachment
  Checkers,   \* workers that may execute check_email_inbox
  Setups,     \* how the intake may be deployed: is a folder watched, with
              \* watchdog or without, and which of Checkers there are
  HasDirs,    \* does the folder have a processed and a failed directory?
  MaxMails    \* bound: messages delivered

ASSUME ArrivalsAssumption ==
  /\ Mailed \subseteq Files /\ NoFile \notin Files
  /\ Setups \subseteq [watch : {"watchdog", "polling", "no"}, pool : SUBSET Checkers]
  /\ HasDirs \in BOOLEAN /\ MaxMails \in Nat
  /\ Checkers \cap {"handler", "main"} = {}

VARIABLES
  disk,     \* the watch folder: open while the file is being written
  setup,    \* the deployment
  main,     \* where FolderWatchAgent.start is
  listed,   \* what is left of the main thread's listing of the folder
  noticed,  \* "created" events that wait for the handler
  seen,     \* seen_files of _poll_loop
  mail,     \* the inbox; the UID of a message is its place
  unseen,   \* UIDs without the flag \Seen
  lastUid,  \* EmailIngestConfig.last_uid, 0 when blank
  chk,      \* the checks of the inbox that are going on
  job,      \* the file in the hands of a thread or a check
  complete, \* files with a COMPLETE upload
  hist      \* history, for the properties only

folderVars == <<disk, setup, main, listed, noticed, seen>>
mailVars   == <<mail, unseen, lastUid, chk>>
vars == <<folderVars, mailVars, job, complete, hist>>

Threads == {"handler", "main"}
Actors == Threads \cup Checkers
Uids == 1 .. MaxMails

\* found: picked up, not read yet; run: past the duplicate check.
Job == [pc : {"none", "found", "run"}, file : Files \cup {NoFile}]
NoJob == [pc |-> "none", file |-> NoFile]

\* top: the newest message at the search; last: config.last_uid in memory.
Check == [on : BOOLEAN, todo : SUBSET Uids, uid : 0 .. MaxMails,
          top : 0 .. MaxMails, last : 0 .. MaxMails]
NoCheck == [on |-> FALSE, todo |-> {}, uid |-> 0, top |-> 0, last |-> 0]

\* taken: read by a watcher; cleared, again: FIRS cleared rows of the file
\* once, more than once; hurt: why it may have; tried, repeated: messages
\* processed, and processed again although not the newest; lost: messages that
\* raised, or were read by somebody while there was no last_uid.
History == [taken : SUBSET Files, cleared : SUBSET Files, again : SUBSET Files,
            hurt : SUBSET Files, tried : SUBSET Uids, repeated : SUBSET Uids,
            lost : SUBSET Uids, disturbed : BOOLEAN]

TypeOK ==
  /\ disk \in [Files -> {"away", "open", "closed", "moved"}]
  /\ setup \in Setups
  /\ main \in {"off", "observing", "scanning", "waiting"}
  /\ listed \subseteq Files /\ noticed \subseteq Files /\ seen \subseteq Files
  /\ mail \in Seq(Mailed \cup {NoFile}) /\ Len(mail) <= MaxMails
  /\ unseen \subseteq DOMAIN mail
  /\ lastUid \in 0 .. Len(mail)
  /\ chk \in [Checkers -> Check]
  /\ job \in [Actors -> Job]
  /\ complete \subseteq Files
  /\ hist \in History

Init ==
  /\ disk = [f \in Files |-> "away"]
  /\ setup \in Setups
  /\ main = "off" /\ listed = {} /\ noticed = {} /\ seen = {}
  /\ mail = <<>> /\ unseen = {} /\ lastUid = 0
  /\ chk = [c \in Checkers |-> NoCheck]
  /\ job = [a \in Actors |-> NoJob]
  /\ complete = {}
  /\ hist = [taken |-> {}, cleared |-> {}, again |-> {}, hurt |-> {},
             tried |-> {}, repeated |-> {}, lost |-> {}, disturbed |-> FALSE]

-----------------------------------------------------------------------------
(* One file through the pipeline, for the watcher and for the agent.         *)

Idle(a) == job[a].pc = "none"
Hold(a, pc, f) == job' = [job EXCEPT ![a] = [pc |-> pc, file |-> f]]
Drop(a) == job' = [job EXCEPT ![a] = NoJob]

\* A second file of the same content may already be on its way.
Overlaps(a, f) == \E b \in Actors \ {a} : job[b] = [pc |-> "run", file |-> f]

\* The three outcomes of ExcelPipeline.run for a file with valid rows: FIRS
\* cleared all of them, some of them, or none.
Outcome(f, h) ==
  \/ /\ complete' = complete \cup {f}
     /\ hist' = [h EXCEPT !.cleared = @ \cup {f},
                          !.again = IF f \in h.cleared THEN @ \cup {f} ELSE @]
  \/ /\ UNCHANGED complete
     /\ hist' = [h EXCEPT !.cleared = @ \cup {f}, !.hurt = @ \cup {f},
                          !.again = IF f \in h.cleared THEN @ \cup {f} ELSE @]
  \/ UNCHANGED complete /\ hist' = h

-----------------------------------------------------------------------------
(* The folder.                                                               *)

\* A file is created: watchdog reports it to a running watcher.
CreateFile(f) ==
  /\ disk[f] = "away" /\ setup.watch # "no"
  /\ disk' = [disk EXCEPT ![f] = "open"]
  /\ noticed' = IF setup.watch = "watchdog" /\ main # "off" THEN noticed \cup {f} ELSE noticed
  /\ UNCHANGED <<setup, main, listed, seen, mailVars, job, complete, hist>>

CloseFile(f) ==
  /\ disk[f] = "open"
  /\ disk' = [disk EXCEPT ![f] = "closed"]
  /\ UNCHANGED <<setup, main, listed, noticed, seen, mailVars, job, complete, hist>>

\* A finished file gets its name by a rename inside the folder: a "moved"
\* event, which the handler does not have a method for.
RenameFile(f) ==
  /\ disk[f] = "away" /\ setup.watch # "no"
  /\ disk' = [disk EXCEPT ![f] = "closed"]
  /\ UNCHANGED <<setup, main, listed, noticed, seen, mailVars, job, complete, hist>>

\* watch_folder: start() up to the first listing.
StartWatching ==
  /\ setup.watch # "no" /\ main = "off" /\ main' = "observing"
  /\ UNCHANGED <<disk, setup, listed, noticed, seen, mailVars, job, complete, hist>>

\* _scan_existing: after the observer has been started, or each poll_interval.
ListFolder ==
  /\ main = "observing" \/ (main = "waiting" /\ setup.watch = "polling")
  /\ main' = "scanning"
  /\ listed' = {f \in Files : disk[f] \in {"open", "closed"}}
  /\ UNCHANGED <<disk, setup, noticed, seen, mailVars, job, complete, hist>>

\* A path that is gone by now is no file any more; the poll loop processes a
\* path once in its life.
ScanFile(f) ==
  /\ main = "scanning" /\ Idle("main") /\ f \in listed
  /\ listed' = listed \ {f}
  /\ \/ disk[f] \in {"open", "closed"} /\ f \notin seen /\ Hold("main", "found", f)
     \/ (disk[f] = "moved" \/ f \in seen) /\ UNCHANGED job
  /\ seen' = IF setup.watch = "polling" /\ disk[f] # "moved" THEN seen \cup {f} ELSE seen
  /\ UNCHANGED <<disk, setup, main, noticed, mailVars, complete, hist>>

EndScan ==
  /\ main = "scanning" /\ Idle("main") /\ listed = {}
  /\ main' = "waiting"
  /\ UNCHANGED <<disk, setup, listed, noticed, seen, mailVars, job, complete, hist>>

HandleCreatedUnlessScanning(f) ==
  /\ Idle("handler") /\ f \in noticed
  /\ noticed' = noticed \ {f}
  /\ IF main = "scanning" THEN UNCHANGED job ELSE Hold("handler", "found", f)
  /\ UNCHANGED <<disk, setup, main, listed, seen, mailVars, complete, hist>>

\* on_created, up to the end of its sleep.
HandleCreated(f) ==
  /\ Idle("handler") /\ f \in noticed
  /\ noticed' = noticed \ {f}
  /\ Hold("handler", "found", f)
  /\ UNCHANGED <<disk, setup, main, listed, seen, mailVars, complete, hist>>

\* _move_file: nothing happens without a directory, or when the move fails.
MoveAway(f) ==
  disk' \in {disk} \cup (IF HasDirs THEN {[disk EXCEPT ![f] = "moved"]} ELSE {})

\* _process_file, up to the pipeline.  A path that is gone raises; of a file
\* that is still being written the parser sees a part and gives up.
ReadFile(t) ==
  LET f == job[t].file IN
  /\ t \in Threads /\ job[t].pc = "found"
  /\ hist' = [hist EXCEPT !.taken = @ \cup {f},
                          !.hurt = IF disk[f] = "closed" /\ f \notin complete /\ Overlaps(t, f)
                                     THEN @ \cup {f} ELSE @]
  /\ \/ disk[f] = "moved" /\ Drop(t) /\ UNCHANGED disk
     \/ (disk[f] = "open" \/ f \in complete) /\ disk[f] # "moved" /\ Drop(t) /\ MoveAway(f)
     \/ disk[f] = "closed" /\ f \notin complete /\ Hold(t, "run", f) /\ UNCHANGED disk
  /\ UNCHANGED <<setup, main, listed, noticed, seen, mailVars, complete>>

\* ExcelPipeline.run, then the move to the processed or the failed directory.
RunFile(t) ==
  LET f == job[t].file IN
  /\ t \in Threads /\ job[t].pc = "run"
  /\ Outcome(f, hist)
  /\ IF disk[f] = "moved" THEN UNCHANGED disk ELSE MoveAway(f)
  /\ Drop(t)
  /\ UNCHANGED <<setup, main, listed, noticed, seen, mailVars>>

\* The watcher is stopped or dies, and forgets what it has seen.
StopWatching ==
  /\ main # "off" /\ main' = "off"
  /\ listed' = {} /\ noticed' = {} /\ seen' = {}
  /\ job' = [a \in Actors |-> IF a \in Threads THEN NoJob ELSE job[a]]
  /\ LET cut == {job[t].file : t \in {t \in Threads : job[t].pc = "run"}} IN
       hist' = [hist EXCEPT !.hurt = @ \cup cut, !.cleared = @ \cup cut,
                            !.again = @ \cup (cut \cap hist.cleared)]
  /\ UNCHANGED <<disk, setup, mailVars, complete>>

-----------------------------------------------------------------------------
(* The inbox.                                                                *)

Deliver(f) ==
  /\ Len(mail) < MaxMails
  /\ mail' = Append(mail, f)
  /\ unseen' = unseen \cup {Len(mail) + 1}
  /\ UNCHANGED <<folderVars, lastUid, chk, job, complete, hist>>

\* No last_uid yet, or a check is under way that may save the blank it read.
NoLastUid == lastUid = 0 \/ \E c \in Checkers : chk[c].on /\ chk[c].last = 0

\* Somebody opens a message in the shared inbox.
OpenMessage(u) ==
  /\ u \in unseen
  /\ unseen' = unseen \ {u}
  /\ hist' = IF NoLastUid THEN [hist EXCEPT !.lost = @ \cup {u}] ELSE hist
  /\ UNCHANGED <<folderVars, mail, lastUid, chk, job, complete>>

FoundFromLast == IF lastUid = 0 THEN unseen ELSE {u \in DOMAIN mail : u >= lastUid}

\* The search.  The range n+1:* always contains the newest message (RFC 3501),
\* even when its UID is n; without a last UID, unread messages are searched.
Found == IF lastUid = 0 THEN unseen
         ELSE {u \in DOMAIN mail : u > lastUid \/ u = Len(mail)}

\* check_email_inbox and process_new_emails, up to its loop.
StartCheck(c) ==
  /\ c \in setup.pool /\ ~chk[c].on /\ mail # <<>>
  /\ chk' = [chk EXCEPT ![c] = [on |-> TRUE, todo |-> Found, uid |-> 0,
                                top |-> Len(mail), last |-> lastUid]]
  /\ hist' = [hist EXCEPT !.disturbed = @ \/ \E d \in Checkers : chk[d].on]
  /\ UNCHANGED <<folderVars, mail, unseen, lastUid, job, complete>>

FirstOf(c) == Min(chk[c].todo)

\* A message without an Excel attachment is skipped, and leaves last_uid alone;
\* the fetch has set its flag \Seen (RFC 3501).
SkipMessage(c) ==
  LET u == FirstOf(c) IN
  /\ chk[c].on /\ Idle(c) /\ chk[c].todo # {} /\ mail[u] = NoFile
  /\ chk' = [chk EXCEPT ![c].todo = @ \ {u}]
  /\ unseen' = unseen \ {u}
  /\ UNCHANGED <<folderVars, mail, lastUid, job, complete, hist>>

\* The fetch, or the INSERT of the upload, raises: the loop goes on, and a later
\* message may carry last_uid past this one.
MessageFails(c) ==
  LET u == FirstOf(c) IN
  /\ chk[c].on /\ Idle(c) /\ chk[c].todo # {}
  /\ chk' = [chk EXCEPT ![c].todo = @ \ {u}]
  /\ hist' = [hist EXCEPT !.lost = @ \cup {u}]
  /\ unseen' \in {unseen, unseen \ {u}}
  /\ UNCHANGED <<folderVars, mail, lastUid, job, complete>>

Tried(c, u, h) ==
  [h EXCEPT !.tried = @ \cup {u},
            !.repeated = IF u \in h.tried /\ u # chk[c].top THEN @ \cup {u} ELSE @]

TakeMessageUnchecked(c) ==
  LET u == FirstOf(c) f == mail[u] IN
  /\ chk[c].on /\ Idle(c) /\ chk[c].todo # {} /\ f # NoFile
  /\ Hold(c, "run", f)
  /\ hist' = Tried(c, u, [hist EXCEPT !.hurt = IF Overlaps(c, f) THEN @ \cup {f} ELSE @])
  /\ chk' = [chk EXCEPT ![c].todo = @ \ {u}, ![c].uid = u]
  /\ unseen' = unseen \ {u}
  /\ UNCHANGED <<folderVars, mail, lastUid, complete>>

\* _process_attachment: a file with a COMPLETE upload is refused, and its
\* message counts as processed.
TakeMessage(c) ==
  LET u == FirstOf(c) f == mail[u] IN
  /\ chk[c].on /\ Idle(c) /\ chk[c].todo # {} /\ f # NoFile
  /\ \/ /\ f \in complete
        /\ chk' = [chk EXCEPT ![c].todo = @ \ {u}, ![c].last = u]
        /\ hist' = Tried(c, u, hist)
        /\ UNCHANGED job
     \/ /\ f \notin complete
        /\ Hold(c, "run", f)
        /\ chk' = [chk EXCEPT ![c].todo = @ \ {u}, ![c].uid = u]
        /\ hist' = Tried(c, u, [hist EXCEPT !.hurt = IF Overlaps(c, f) THEN @ \cup {f} ELSE @])
  /\ unseen' = unseen \ {u}
  /\ UNCHANGED <<folderVars, mail, lastUid, complete>>

\* The pipeline, then last_uid in memory; when the flag \Seen, set by the fetch
\* already, cannot be set again, the message counts as an error although it was
\* processed.
RunMessage(c) ==
  LET u == chk[c].uid IN
  /\ job[c].pc = "run"
  /\ Drop(c)
  /\ \/ /\ chk' = [chk EXCEPT ![c].last = u, ![c].uid = 0]
        /\ Outcome(job[c].file, hist)
     \/ /\ chk' = [chk EXCEPT ![c].uid = 0]
        /\ Outcome(job[c].file, [hist EXCEPT !.disturbed = TRUE])
  /\ UNCHANGED <<folderVars, mail, unseen, lastUid>>

EndCheckAtNewest(c) ==
  /\ chk[c].on /\ Idle(c) /\ chk[c].todo = {}
  /\ lastUid' = Len(mail)
  /\ chk' = [chk EXCEPT ![c] = NoCheck]
  /\ UNCHANGED <<folderVars, mail, unseen, job, complete, hist>>

\* last_uid is saved when the loop is over.
EndCheck(c) ==
  /\ chk[c].on /\ Idle(c) /\ chk[c].todo = {}
  /\ lastUid' = chk[c].last
  /\ chk' = [chk EXCEPT ![c] = NoCheck]
  /\ UNCHANGED <<folderVars, mail, unseen, job, complete, hist>>

\* The time limit, a restart, or a save that fails: nothing is saved.
CheckDies(c) ==
  /\ chk[c].on
  /\ chk' = [chk EXCEPT ![c] = NoCheck]
  /\ Drop(c)
  /\ LET cut == IF job[c].pc = "run" THEN {job[c].file} ELSE {} IN
       hist' = [hist EXCEPT !.disturbed = TRUE, !.hurt = @ \cup cut, !.cleared = @ \cup cut,
                            !.again = @ \cup (cut \cap hist.cleared)]
  /\ UNCHANGED <<folderVars, mail, unseen, lastUid, complete>>

-----------------------------------------------------------------------------
Watcher ==
  \/ ListFolder \/ EndScan
  \/ \E f \in Files : ScanFile(f) \/ HandleCreated(f)
  \/ \E t \in Threads : ReadFile(t) \/ RunFile(t)

Agent(c) ==
  \/ StartCheck(c) \/ SkipMessage(c) \/ MessageFails(c) \/ TakeMessage(c)
  \/ RunMessage(c) \/ EndCheck(c) \/ CheckDies(c)

Next ==
  \/ \E f \in Files : CreateFile(f) \/ CloseFile(f) \/ RenameFile(f)
  \/ StartWatching \/ StopWatching \/ Watcher
  \/ \E f \in Mailed \cup {NoFile} : Deliver(f)
  \/ \E u \in Uids : OpenMessage(u)
  \/ \E c \in Checkers : Agent(c)

Spec == Init /\ [][Next]_vars

(* The threads of a running watcher go on.                                   *)
Fairness ==
  /\ WF_vars(ListFolder) /\ WF_vars(EndScan)
  /\ WF_vars(\E f \in Files : ScanFile(f))
  /\ WF_vars(\E f \in Files : HandleCreated(f))
  /\ \A t \in Threads : WF_vars(ReadFile(t)) /\ WF_vars(RunFile(t))

FairSpec == Spec /\ Fairness

-----------------------------------------------------------------------------
\* FIRS clears a file a second time only when an earlier run of it was PARTIAL,
\* was cut off, or went on at the same time: otherwise the duplicate check,
\* the moves and last_uid together keep the watcher's threads, its restarts
\* and every new look at the newest message from repeating it.
ClearedAgainIsExcused == hist.again \subseteq hist.hurt

\* The saved last_uid does not pass over a message that was never processed,
\* unless its processing raised or somebody read it while there was no last_uid.
NotPassedOver ==
  \A u \in DOMAIN mail :
    (u <= lastUid /\ mail[u] # NoFile) => u \in hist.tried \cup hist.lost

\* Of the messages it has processed the agent processes only the newest again,
\* unless a check died, ran beside another one, or could not set the flag.
RepeatIsNewest == hist.repeated # {} => hist.disturbed

\* The watcher will come to f: an event, the listing, or the next poll.
Announced(f) ==
  \/ f \in noticed \cup listed
  \/ setup.watch = "polling" /\ main # "off" /\ f \notin seen

\* A finished file that the watcher has been told of is read.
FileIsTaken ==
  \A f \in Files :
    (disk[f] = "closed" /\ Announced(f)) ~> (f \in hist.taken \/ main = "off")
=============================================================================
