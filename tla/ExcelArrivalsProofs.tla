------------------------- MODULE ExcelArrivalsProofs -------------------------
(***************************************************************************)
(* Proofs about module ExcelArrivals, for any number of files, messages and*)
(* checks of the inbox.                                                    *)
(***************************************************************************)
EXTENDS ExcelArrivals, TLAPS, WellFoundedInduction

-----------------------------------------------------------------------------
(* Types, and what a check holds: messages that exist, and a file in hand    *)
(* exactly as long as it works on a message.                                 *)

MailOK ==
  \A c \in Checkers :
    /\ chk[c].todo \subseteq DOMAIN mail
    /\ chk[c].uid <= Len(mail) /\ chk[c].top <= Len(mail) /\ chk[c].last <= Len(mail)
    /\ chk[c].uid # 0 <=> job[c].pc # "none"
    /\ ~chk[c].on => chk[c] = NoCheck

\* What is in hand is a file.
HasFile == \A a \in Actors : job[a].pc # "none" => job[a].file \in Files

TypeInv == TypeOK /\ MailOK /\ HasFile

\* A non-empty set of naturals has a least element.
LEMMA LeastExists ==
  ASSUME NEW S \in SUBSET Nat, S # {}
  PROVE  \E x \in S : \A y \in S : x <= y
<1> DEFINE R == OpToRel(<, Nat)
<1>1. \E x \in S : \A y \in S : ~(<<y, x>> \in R)
  <2>1. IsWellFoundedOn(R, Nat)
    BY NatLessThanWellFounded
  <2> HIDE DEF R
  <2> QED
    BY <2>1, WFMin
<1>2. \A x, y \in S : ~(<<y, x>> \in R) => x <= y
  BY DEF OpToRel
<1> QED
  BY <1>1, <1>2

\* A check with something left to do has a first message.
LEMMA FirstExists ==
  ASSUME TypeInv, NEW c \in Checkers, chk[c].todo # {}
  PROVE  /\ FirstOf(c) \in chk[c].todo
         /\ \A t \in chk[c].todo : FirstOf(c) <= t
<1>1. chk[c].todo \in SUBSET Nat
  BY DEF TypeInv, TypeOK, Check, Uids
<1>2. \E x \in chk[c].todo : \A t \in chk[c].todo : x <= t
  BY <1>1, LeastExists
<1> QED
  BY <1>2 DEF FirstOf, Min

\* Messages are numbered from one, and there are at most MaxMails.
LEMMA MailTypes ==
  ASSUME TypeInv
  PROVE  /\ Len(mail) \in Nat /\ DOMAIN mail = 1 .. Len(mail)
         /\ DOMAIN mail \subseteq Uids
         /\ \A u \in DOMAIN mail : u \in Nat /\ u > 0 /\ mail[u] \in Mailed \cup {NoFile}
BY ArrivalsAssumption DEF TypeInv, TypeOK, Uids

\* What the steps of the watcher and of its folder leave alone.
Folder ==
  \/ \E f \in Files : \/ CreateFile(f) \/ CloseFile(f) \/ RenameFile(f)
                      \/ ScanFile(f) \/ HandleCreated(f)
  \/ StartWatching \/ StopWatching \/ ListFolder \/ EndScan
  \/ \E t \in Threads : ReadFile(t) \/ RunFile(t)

\* The outcome of a run keeps what the history says of the messages.
LEMMA OutcomeKeeps ==
  ASSUME NEW f \in Files, NEW h \in History, Outcome(f, h), complete \subseteq Files
  PROVE  /\ hist' \in History /\ complete' \subseteq Files
         /\ hist'.tried = h.tried /\ hist'.lost = h.lost
         /\ hist'.repeated = h.repeated /\ hist'.disturbed = h.disturbed
<1>1. ASSUME NEW g \in {h.again, h.again \cup {f}}, NEW u \in {h.hurt, h.hurt \cup {f}},
             hist' = [h EXCEPT !.cleared = h.cleared \cup {f}, !.hurt = u, !.again = g]
      PROVE  /\ hist' \in History
             /\ hist'.tried = h.tried /\ hist'.lost = h.lost
             /\ hist'.repeated = h.repeated /\ hist'.disturbed = h.disturbed
  BY <1>1 DEF History
<1>2. \/ \E g \in {h.again, h.again \cup {f}}, u \in {h.hurt, h.hurt \cup {f}} :
           hist' = [h EXCEPT !.cleared = h.cleared \cup {f}, !.hurt = u, !.again = g]
      \/ hist' = h
  <2>1. [h EXCEPT !.cleared = @ \cup {f}, !.again = IF f \in h.cleared THEN @ \cup {f} ELSE @]
        = [h EXCEPT !.cleared = h.cleared \cup {f}, !.hurt = h.hurt,
                    !.again = IF f \in h.cleared THEN h.again \cup {f} ELSE h.again]
    BY DEF History
  <2> QED
    BY <2>1 DEF Outcome
<1>3. complete' \subseteq Files
  BY DEF Outcome
<1> QED
  BY <1>1, <1>2, <1>3

LEMMA NoJobType == NoJob \in Job
BY DEF NoJob, Job

LEMMA NoCheckType == NoCheck \in Check /\ NoCheck.uid = 0 /\ NoCheck.todo = {} /\ ~NoCheck.on
                     /\ NoCheck.last = 0 /\ NoCheck.top = 0
BY ArrivalsAssumption DEF NoCheck, Check, Uids

LEMMA FolderFrame ==
  ASSUME TypeInv, Folder
  PROVE  /\ UNCHANGED mailVars
         /\ \A c \in Checkers : job'[c] = job[c]
         /\ hist'.tried = hist.tried /\ hist'.lost = hist.lost
         /\ hist'.repeated = hist.repeated /\ hist'.disturbed = hist.disturbed
<1> USE DEF TypeInv, TypeOK, Threads, Actors
<1>0. \A c \in Checkers : c \notin Threads /\ c \in Actors
  BY ArrivalsAssumption
<1>1. ASSUME \/ \E f \in Files : \/ CreateFile(f) \/ CloseFile(f) \/ RenameFile(f)
                                 \/ ScanFile(f) \/ HandleCreated(f)
             \/ StartWatching \/ ListFolder \/ EndScan
      PROVE  /\ UNCHANGED <<mailVars, hist>> /\ \A c \in Checkers : job'[c] = job[c]
  BY <1>0, <1>1 DEF CreateFile, CloseFile, RenameFile, ScanFile, HandleCreated, Hold,
     StartWatching, ListFolder, EndScan
<1>2. CASE StopWatching
  BY <1>0, <1>2 DEF StopWatching, History
<1>3. ASSUME NEW t \in Threads, ReadFile(t)
      PROVE  /\ UNCHANGED mailVars /\ \A c \in Checkers : job'[c] = job[c]
             /\ hist'.tried = hist.tried /\ hist'.lost = hist.lost
             /\ hist'.repeated = hist.repeated /\ hist'.disturbed = hist.disturbed
  <2>1. \A c \in Checkers : job'[c] = job[c]
    BY <1>0, <1>3 DEF ReadFile, Hold, Drop
  <2> QED
    BY <1>3, <2>1 DEF ReadFile, History, mailVars
<1>4. ASSUME NEW t \in Threads, RunFile(t)
      PROVE  /\ UNCHANGED mailVars /\ \A c \in Checkers : job'[c] = job[c]
             /\ hist'.tried = hist.tried /\ hist'.lost = hist.lost
             /\ hist'.repeated = hist.repeated /\ hist'.disturbed = hist.disturbed
  <2>1. \A c \in Checkers : job'[c] = job[c]
    BY <1>0, <1>4 DEF RunFile, Drop
  <2> QED
    BY <1>4, <2>1 DEF RunFile, Outcome, History, mailVars
<1> QED
  BY <1>1, <1>2, <1>3, <1>4 DEF Folder, mailVars

\* The steps of the folder keep the types.
LEMMA FolderTypes ==
  ASSUME TypeInv, Folder
  PROVE  TypeInv'
<1> USE DEF TypeOK, Threads, Actors
<1>a. TypeOK /\ HasFile
  BY DEF TypeInv
<1>b. MailOK'
  BY FolderFrame DEF MailOK, TypeInv, mailVars
<1>c. /\ mail' \in Seq(Mailed \cup {NoFile}) /\ Len(mail') <= MaxMails
      /\ unseen' \subseteq DOMAIN mail' /\ lastUid' \in 0 .. Len(mail')
      /\ chk' \in [Checkers -> Check]
  BY <1>a, FolderFrame DEF mailVars
<1>d. ASSUME NEW a \in Actors, NEW pc \in {"found", "run"}, NEW f \in Files, Hold(a, pc, f)
      PROVE  job' \in [Actors -> Job] /\ HasFile'
  BY <1>a, <1>d DEF Hold, Job, HasFile
<1>e. ASSUME NEW a \in Actors, Drop(a)
      PROVE  job' \in [Actors -> Job] /\ HasFile'
  BY <1>a, <1>e, NoJobType DEF Drop, HasFile, NoJob
<1>f. UNCHANGED job => job' \in [Actors -> Job] /\ HasFile'
  BY <1>a DEF HasFile
<1>1. ASSUME \/ \E f \in Files : CreateFile(f) \/ CloseFile(f) \/ RenameFile(f)
             \/ StartWatching \/ ListFolder \/ EndScan
      PROVE  TypeInv'
  BY <1>1, <1>a, <1>b, <1>c, <1>f DEF TypeInv, CreateFile, CloseFile, RenameFile, StartWatching,
     ListFolder, EndScan
<1>2. ASSUME NEW f \in Files, ScanFile(f)
      PROVE  TypeInv'
  <2>1. job' \in [Actors -> Job] /\ HasFile'
    BY <1>2, <1>d, <1>f DEF ScanFile
  <2> QED
    BY <1>2, <2>1, <1>a, <1>b, <1>c DEF TypeInv, ScanFile
<1>3. ASSUME NEW f \in Files, HandleCreated(f)
      PROVE  TypeInv'
  <2>1. job' \in [Actors -> Job] /\ HasFile'
    BY <1>3, <1>d DEF HandleCreated
  <2> QED
    BY <1>3, <2>1, <1>a, <1>b, <1>c DEF TypeInv, HandleCreated
<1>4. ASSUME NEW t \in Threads, ReadFile(t)
      PROVE  TypeInv'
  <2>0. job[t].file \in Files
    BY <1>4, <1>a DEF ReadFile, HasFile
  <2>1. job' \in [Actors -> Job] /\ HasFile'
    BY <1>4, <2>0, <1>d, <1>e DEF ReadFile
  <2>2. disk' \in [Files -> {"away", "open", "closed", "moved"}]
    BY <1>4, <1>a DEF ReadFile, MoveAway
  <2>3. hist' \in History
    BY <1>4, <1>a, <2>0 DEF ReadFile, History
  <2>4. UNCHANGED <<setup, main, listed, noticed, seen, complete>>
    BY <1>4 DEF ReadFile
  <2> QED
    BY <2>1, <2>2, <2>3, <2>4, <1>a, <1>b, <1>c DEF TypeInv
<1>5. ASSUME NEW t \in Threads, RunFile(t)
      PROVE  TypeInv'
  <2>0. job[t].file \in Files
    BY <1>5, <1>a DEF RunFile, HasFile
  <2>1. job' \in [Actors -> Job] /\ HasFile'
    BY <1>5, <1>e DEF RunFile
  <2>2. disk' \in [Files -> {"away", "open", "closed", "moved"}]
    BY <1>5, <1>a DEF RunFile, MoveAway
  <2>3. hist' \in History /\ complete' \subseteq Files
    BY <1>5, <1>a, <2>0, OutcomeKeeps DEF RunFile
  <2>4. UNCHANGED <<setup, main, listed, noticed, seen>>
    BY <1>5 DEF RunFile
  <2> QED
    BY <2>1, <2>2, <2>3, <2>4, <1>a, <1>b, <1>c DEF TypeInv
<1>6. CASE StopWatching
  <2>1. job' \in [Actors -> Job] /\ HasFile'
    BY <1>6, <1>a, NoJobType DEF StopWatching, HasFile, NoJob
  <2>2. \A t \in Threads : job[t].pc = "run" => job[t].file \in Files
    BY <1>a DEF HasFile
  <2>3. hist' \in History
    BY <1>6, <1>a, <2>2 DEF StopWatching, History
  <2>4. UNCHANGED <<disk, setup, complete>> /\ main' = "off"
        /\ listed' = {} /\ noticed' = {} /\ seen' = {}
    BY <1>6 DEF StopWatching
  <2> QED
    BY <2>1, <2>3, <2>4, <1>a, <1>b, <1>c DEF TypeInv
<1> QED
  BY <1>1, <1>2, <1>3, <1>4, <1>5, <1>6 DEF Folder

-----------------------------------------------------------------------------
(* The steps of the inbox.                                                   *)

\* c goes on with its loop.
Loop(c, todo, uid, last) ==
  /\ chk[c].on
  /\ chk' \in [Checkers -> Check]
  /\ chk'[c].on /\ chk'[c].todo = todo /\ chk'[c].uid = uid /\ chk'[c].last = last
  /\ chk'[c].top = chk[c].top
  /\ \A d \in Checkers : d # c => chk'[d] = chk[d]

\* The numbers that a check holds.
LEMMA CheckTypes ==
  ASSUME TypeInv, NEW c \in Checkers
  PROVE  /\ chk[c] \in Check
         /\ chk[c].todo \in SUBSET DOMAIN mail
         /\ chk[c].uid \in 0 .. Len(mail) /\ chk[c].last \in 0 .. Len(mail)
         /\ chk[c].top \in 0 .. Len(mail)
BY MailTypes DEF TypeInv, TypeOK, MailOK, Check

\* A check in its loop sets what is left to do, and one number.
LEMMA LoopBy ==
  ASSUME TypeInv, NEW c \in Checkers, chk[c].on,
         NEW todo \in SUBSET Uids, NEW n \in 0 .. MaxMails
  PROVE  /\ chk' = [chk EXCEPT ![c].todo = todo] => Loop(c, todo, chk[c].uid, chk[c].last)
         /\ chk' = [chk EXCEPT ![c].todo = todo, ![c].last = n] => Loop(c, todo, chk[c].uid, n)
         /\ chk' = [chk EXCEPT ![c].todo = todo, ![c].uid = n] => Loop(c, todo, n, chk[c].last)
         /\ chk' = [chk EXCEPT ![c].last = n, ![c].uid = 0] => Loop(c, chk[c].todo, 0, n)
         /\ chk' = [chk EXCEPT ![c].uid = 0] => Loop(c, chk[c].todo, 0, chk[c].last)
<1> USE DEF Loop, Check
<1>0. chk \in [Checkers -> Check] /\ 0 \in 0 .. MaxMails
  BY ArrivalsAssumption DEF TypeInv, TypeOK
<1>1. chk' = [chk EXCEPT ![c].todo = todo] => Loop(c, todo, chk[c].uid, chk[c].last)
  BY <1>0
<1>2. chk' = [chk EXCEPT ![c].todo = todo, ![c].last = n] => Loop(c, todo, chk[c].uid, n)
  <2> SUFFICES ASSUME chk' = [chk EXCEPT ![c].todo = todo, ![c].last = n]
               PROVE  Loop(c, todo, chk[c].uid, n)
    OBVIOUS
  <2>1. chk'[c] = [chk[c] EXCEPT !.todo = todo, !.last = n]
    BY <1>0
  <2>2. \A d \in Checkers : d # c => chk'[d] = chk[d]
    BY <1>0
  <2>3. chk[c] \in Check
    BY <1>0
  <2>4. chk'[c] \in Check
    BY <1>0, <2>1, <2>3
  <2>5. chk' \in [Checkers -> Check]
    BY <1>0, <2>2, <2>4
  <2> QED
    BY <2>1, <2>2, <2>3, <2>5
<1>3. chk' = [chk EXCEPT ![c].todo = todo, ![c].uid = n] => Loop(c, todo, n, chk[c].last)
  <2> SUFFICES ASSUME chk' = [chk EXCEPT ![c].todo = todo, ![c].uid = n]
               PROVE  Loop(c, todo, n, chk[c].last)
    OBVIOUS
  <2>1. chk'[c] = [chk[c] EXCEPT !.todo = todo, !.uid = n]
    BY <1>0
  <2>2. \A d \in Checkers : d # c => chk'[d] = chk[d]
    BY <1>0
  <2>3. chk[c] \in Check
    BY <1>0
  <2>4. chk'[c] \in Check
    BY <1>0, <2>1, <2>3
  <2>5. chk' \in [Checkers -> Check]
    BY <1>0, <2>2, <2>4
  <2> QED
    BY <2>1, <2>2, <2>3, <2>5
<1>4. chk' = [chk EXCEPT ![c].last = n, ![c].uid = 0] => Loop(c, chk[c].todo, 0, n)
  <2> SUFFICES ASSUME chk' = [chk EXCEPT ![c].last = n, ![c].uid = 0]
               PROVE  Loop(c, chk[c].todo, 0, n)
    OBVIOUS
  <2>1. chk'[c] = [chk[c] EXCEPT !.last = n, !.uid = 0]
    BY <1>0
  <2>2. \A d \in Checkers : d # c => chk'[d] = chk[d]
    BY <1>0
  <2>3. chk[c] \in Check
    BY <1>0
  <2>4. chk'[c] \in Check
    BY <1>0, <2>1, <2>3
  <2>5. chk' \in [Checkers -> Check]
    BY <1>0, <2>2, <2>4
  <2> QED
    BY <2>1, <2>2, <2>3, <2>5
<1>5. chk' = [chk EXCEPT ![c].uid = 0] => Loop(c, chk[c].todo, 0, chk[c].last)
  BY <1>0
<1> QED
  BY <1>1, <1>2, <1>3, <1>4, <1>5

\* A check that has a file in hand is in its loop.
LEMMA RunsOn ==
  ASSUME TypeInv, NEW c \in Checkers, RunMessage(c) \/ job[c].pc # "none"
  PROVE  chk[c].on /\ chk[c].uid \in DOMAIN mail
<1>1. chk[c].uid # 0
  BY DEF RunMessage, TypeInv, MailOK
<1> QED
  BY <1>1, NoCheckType, CheckTypes, MailTypes DEF TypeInv, MailOK

\* The steps inside the loop, in these terms.
LEMMA Passing ==
  ASSUME TypeInv, NEW c \in Checkers, SkipMessage(c) \/ MessageFails(c)
  PROVE  /\ Loop(c, chk[c].todo \ {FirstOf(c)}, 0, chk[c].last)
         /\ chk[c].todo # {} /\ chk[c].uid = 0
<1>1. chk[c].on /\ chk[c].todo # {} /\ chk[c].uid = 0
  BY DEF SkipMessage, MessageFails, Idle, TypeInv, MailOK
<1>2. chk[c].todo \ {FirstOf(c)} \in SUBSET Uids
  BY CheckTypes, MailTypes
<1>3. chk' = [chk EXCEPT ![c].todo = chk[c].todo \ {FirstOf(c)}]
  BY DEF SkipMessage, MessageFails, TypeInv, TypeOK
<1>4. 0 \in 0 .. MaxMails
  BY ArrivalsAssumption
<1> QED
  BY <1>1, <1>2, <1>3, <1>4, LoopBy

LEMMA Taking ==
  ASSUME TypeInv, NEW c \in Checkers, TakeMessage(c)
  PROVE  /\ chk[c].todo # {} /\ chk[c].uid = 0
         /\ \/ /\ Loop(c, chk[c].todo \ {FirstOf(c)}, 0, FirstOf(c))
               /\ UNCHANGED job /\ hist' = Tried(c, FirstOf(c), hist)
            \/ /\ Loop(c, chk[c].todo \ {FirstOf(c)}, FirstOf(c), chk[c].last)
               /\ Hold(c, "run", mail[FirstOf(c)])
               /\ mail[FirstOf(c)] \notin complete /\ mail[FirstOf(c)] # NoFile
               /\ hist' = Tried(c, FirstOf(c),
                                [hist EXCEPT !.hurt = IF Overlaps(c, mail[FirstOf(c)])
                                   THEN @ \cup {mail[FirstOf(c)]} ELSE @])
<1>1. chk[c].on /\ chk[c].todo # {} /\ chk[c].uid = 0
  BY DEF TakeMessage, Idle, TypeInv, MailOK
<1>2. chk[c].todo \ {FirstOf(c)} \in SUBSET Uids
  BY CheckTypes, MailTypes
<1>3. FirstOf(c) \in 0 .. MaxMails
  BY <1>1, FirstExists, CheckTypes, MailTypes, ArrivalsAssumption DEF Uids
<1> QED
  BY <1>1, <1>2, <1>3, LoopBy DEF TakeMessage

LEMMA Running ==
  ASSUME TypeInv, NEW c \in Checkers, RunMessage(c)
  PROVE  \/ Loop(c, chk[c].todo, 0, chk[c].uid) /\ Outcome(job[c].file, hist)
         \/ /\ Loop(c, chk[c].todo, 0, chk[c].last)
            /\ Outcome(job[c].file, [hist EXCEPT !.disturbed = TRUE])
<1>1. chk[c].uid \in 0 .. MaxMails /\ {} \in SUBSET Uids
  BY CheckTypes, MailTypes, ArrivalsAssumption DEF TypeInv, TypeOK
<1> QED
  BY <1>1, RunsOn, LoopBy DEF RunMessage

\* What the steps of the inbox leave alone.
LEMMA InboxFrame ==
  ASSUME TypeInv, UNCHANGED folderVars, NEW c \in Checkers,
         job' \in [Actors -> Job], HasFile', hist' \in History, complete' \subseteq Files,
         unseen' \subseteq DOMAIN mail, lastUid' \in 0 .. Len(mail), UNCHANGED mail,
         \A d \in Checkers : d # c => chk'[d] = chk[d] /\ job'[d] = job[d],
         chk' \in [Checkers -> Check],
         chk'[c].todo \subseteq DOMAIN mail,
         chk'[c].uid <= Len(mail), chk'[c].top <= Len(mail), chk'[c].last <= Len(mail),
         chk'[c].uid # 0 <=> job'[c].pc # "none",
         ~chk'[c].on => chk'[c] = NoCheck
  PROVE  TypeInv'
<1>1. TypeOK'
  BY DEF TypeInv, TypeOK, folderVars
<1>2. MailOK'
  BY DEF TypeInv, MailOK
<1> QED
  BY <1>1, <1>2 DEF TypeInv

\* A check of the inbox keeps the types.
LEMMA AgentTypes ==
  ASSUME TypeInv, NEW c \in Checkers, Agent(c)
  PROVE  TypeInv'
<1>a. /\ TypeOK /\ HasFile /\ c \in Actors
      /\ \A d \in Checkers : d \in Actors
  BY DEF TypeInv, Actors
<1>b. /\ chk[c] \in Check /\ chk[c].todo \in SUBSET DOMAIN mail
      /\ chk[c].uid \in 0 .. Len(mail) /\ chk[c].last \in 0 .. Len(mail)
      /\ chk[c].top \in 0 .. Len(mail) /\ Len(mail) \in Nat /\ Len(mail) <= MaxMails
  BY <1>a, CheckTypes, MailTypes DEF TypeOK
<1>c. chk[c].todo # {} => /\ FirstOf(c) \in chk[c].todo /\ FirstOf(c) \in DOMAIN mail
                          /\ FirstOf(c) \in 0 .. Len(mail) /\ FirstOf(c) > 0
                          /\ FirstOf(c) \in Uids
                          /\ mail[FirstOf(c)] \in Mailed \cup {NoFile}
  BY <1>b, FirstExists, MailTypes
<1>d. DOMAIN mail = 1 .. Len(mail) /\ DOMAIN mail \subseteq Uids
  BY MailTypes
<1>1. CASE StartCheck(c)
  <2>1. Found \subseteq DOMAIN mail
    BY <1>a DEF Found, TypeOK
  <2>2. chk[c] = NoCheck /\ chk[c].uid = 0 /\ job[c].pc = "none"
    BY <1>1, NoCheckType DEF StartCheck, TypeInv, MailOK
  <2>3. [on |-> TRUE, todo |-> Found, uid |-> 0, top |-> Len(mail), last |-> lastUid] \in Check
    <3>1. /\ Found \in SUBSET Uids /\ Len(mail) \in 0 .. MaxMails
          /\ lastUid \in 0 .. MaxMails /\ 0 \in 0 .. MaxMails
      BY <2>1, <1>a, <1>b, <1>d, ArrivalsAssumption DEF TypeOK
    <3> QED
      BY <3>1 DEF Check
  <2>4. /\ chk' \in [Checkers -> Check] /\ chk'[c].on /\ chk'[c].todo = Found
        /\ chk'[c].uid = 0 /\ chk'[c].top = Len(mail) /\ chk'[c].last = lastUid
        /\ \A d \in Checkers : d # c => chk'[d] = chk[d]
    BY <1>1, <1>a, <2>3 DEF StartCheck, TypeOK
  <2>5. hist' \in History /\ UNCHANGED <<folderVars, mail, unseen, lastUid, job, complete>>
    BY <1>1, <1>a DEF StartCheck, TypeOK, History
  <2> QED
    BY <2>1, <2>2, <2>4, <2>5, <1>a, <1>b, InboxFrame DEF TypeOK, HasFile
<1>2. CASE SkipMessage(c) \/ MessageFails(c)
  <2>1. Loop(c, chk[c].todo \ {FirstOf(c)}, 0, chk[c].last) /\ chk[c].todo # {} /\ chk[c].uid = 0
    BY <1>2, Passing
  <2>2. /\ UNCHANGED <<folderVars, mail, lastUid, job, complete>>
        /\ unseen' \in {unseen, unseen \ {FirstOf(c)}}
    BY <1>2 DEF SkipMessage, MessageFails
  <2>3. hist' \in History
    BY <1>2, <1>a, <1>c, <2>1 DEF SkipMessage, MessageFails, History, TypeOK
  <2>4. job[c].pc = "none"
    BY <2>1 DEF TypeInv, MailOK
  <2> QED
    BY <2>1, <2>2, <2>3, <2>4, <1>a, <1>b, InboxFrame DEF Loop, TypeOK, HasFile
<1>3. CASE TakeMessage(c)
  <2>1. /\ UNCHANGED <<folderVars, mail, lastUid, complete>>
        /\ unseen' = unseen \ {FirstOf(c)} /\ mail[FirstOf(c)] # NoFile
    BY <1>3 DEF TakeMessage
  <2>2. chk[c].todo # {} /\ chk[c].uid = 0
    BY <1>3, Taking
  <2>3. mail[FirstOf(c)] \in Files
    BY <1>c, <2>1, <2>2, ArrivalsAssumption
  <2>4. job[c].pc = "none"
    BY <2>2 DEF TypeInv, MailOK
  <2>5. ASSUME NEW h \in History
        PROVE  Tried(c, FirstOf(c), h) \in History
    BY <1>c, <2>2 DEF Tried, History
  <2>6. CASE /\ Loop(c, chk[c].todo \ {FirstOf(c)}, 0, FirstOf(c))
             /\ UNCHANGED job /\ hist' = Tried(c, FirstOf(c), hist)
    <3>1. hist' \in History
      BY <2>5, <2>6, <1>a DEF TypeOK
    <3> QED
      BY <2>1, <2>2, <2>4, <2>6, <3>1, <1>a, <1>b, <1>c, InboxFrame DEF Loop, TypeOK, HasFile
  <2>7. CASE /\ Loop(c, chk[c].todo \ {FirstOf(c)}, FirstOf(c), chk[c].last)
             /\ Hold(c, "run", mail[FirstOf(c)])
             /\ hist' = Tried(c, FirstOf(c),
                                [hist EXCEPT !.hurt = IF Overlaps(c, mail[FirstOf(c)])
                                   THEN @ \cup {mail[FirstOf(c)]} ELSE @])
    <3>1. [hist EXCEPT !.hurt = IF Overlaps(c, mail[FirstOf(c)])
             THEN @ \cup {mail[FirstOf(c)]} ELSE @] \in History
      BY <1>a, <2>3 DEF TypeOK, History
    <3>2. hist' \in History
      BY <2>5, <2>7, <3>1
    <3>3. /\ job' \in [Actors -> Job] /\ HasFile' /\ job'[c].pc = "run"
          /\ \A d \in Actors : d # c => job'[d] = job[d]
      BY <2>3, <2>7, <1>a DEF Hold, TypeOK, Job, HasFile
    <3>4. /\ chk' \in [Checkers -> Check] /\ chk'[c].on /\ chk'[c].todo \subseteq DOMAIN mail
          /\ chk'[c].uid = FirstOf(c) /\ chk'[c].uid <= Len(mail) /\ chk'[c].uid # 0
          /\ chk'[c].top <= Len(mail) /\ chk'[c].last <= Len(mail)
          /\ \A d \in Checkers : d # c => chk'[d] = chk[d] /\ job'[d] = job[d]
      BY <2>2, <2>7, <3>3, <1>a, <1>b, <1>c DEF Loop
    <3>5. /\ unseen' \subseteq DOMAIN mail /\ lastUid' \in 0 .. Len(mail)
          /\ complete' \subseteq Files
      BY <2>1, <1>a DEF TypeOK
    <3> QED
      BY <2>1, <3>2, <3>3, <3>4, <3>5, InboxFrame
  <2> QED
    BY <1>3, <2>6, <2>7, Taking
<1>4. CASE RunMessage(c)
  <2>1. UNCHANGED <<folderVars, mail, unseen, lastUid>> /\ Drop(c) /\ job[c].pc = "run"
    BY <1>4 DEF RunMessage
  <2>2. /\ job' \in [Actors -> Job] /\ HasFile' /\ job'[c].pc = "none"
        /\ \A d \in Actors : d # c => job'[d] = job[d]
    BY <2>1, <1>a, NoJobType DEF Drop, TypeOK, HasFile, NoJob
  <2>3. job[c].file \in Files
    BY <2>1, <1>a DEF HasFile
  <2>4. hist' \in History /\ complete' \subseteq Files
    <3>1. [hist EXCEPT !.disturbed = TRUE] \in History
      BY <1>a DEF TypeOK, History
    <3> QED
      BY <1>4, <1>a, <2>3, <3>1, Running, OutcomeKeeps DEF TypeOK
  <2>5. /\ chk' \in [Checkers -> Check] /\ chk'[c].on /\ chk'[c].todo = chk[c].todo
        /\ chk'[c].uid = 0 /\ chk'[c].top = chk[c].top
        /\ chk'[c].last \in {chk[c].last, chk[c].uid}
        /\ \A d \in Checkers : d # c => chk'[d] = chk[d]
    BY <1>4, Running DEF Loop
  <2> QED
    BY <2>1, <2>2, <2>4, <2>5, <1>a, <1>b, InboxFrame DEF TypeOK
<1>5. CASE EndCheck(c)
  <2>1. job[c].pc = "none" /\ UNCHANGED <<folderVars, mail, unseen, job, complete, hist>>
        /\ lastUid' = chk[c].last /\ chk' = [chk EXCEPT ![c] = NoCheck]
    BY <1>5 DEF EndCheck, Idle
  <2>2. /\ chk' \in [Checkers -> Check] /\ chk'[c] = NoCheck
        /\ \A d \in Checkers : d # c => chk'[d] = chk[d]
    BY <2>1, <1>a, NoCheckType DEF TypeOK
  <2> QED
    BY <2>1, <2>2, <1>a, <1>b, NoCheckType, InboxFrame DEF TypeOK, HasFile
<1>6. CASE CheckDies(c)
  <2>1. UNCHANGED <<folderVars, mail, unseen, lastUid, complete>> /\ Drop(c)
        /\ chk' = [chk EXCEPT ![c] = NoCheck]
    BY <1>6 DEF CheckDies
  <2>2. /\ job' \in [Actors -> Job] /\ HasFile' /\ job'[c].pc = "none"
        /\ \A d \in Actors : d # c => job'[d] = job[d]
    BY <2>1, <1>a, NoJobType DEF Drop, TypeOK, HasFile, NoJob
  <2>3. hist' \in History
    <3>1. job[c].pc = "run" => job[c].file \in Files
      BY <1>a DEF HasFile
    <3> QED
      BY <1>6, <1>a, <3>1 DEF CheckDies, TypeOK, History
  <2>4. /\ chk' \in [Checkers -> Check] /\ chk'[c] = NoCheck
        /\ \A d \in Checkers : d # c => chk'[d] = chk[d]
    BY <2>1, <1>a, NoCheckType DEF TypeOK
  <2> QED
    BY <2>1, <2>2, <2>3, <2>4, <1>a, <1>b, NoCheckType, InboxFrame DEF TypeOK
<1> QED
  BY <1>1, <1>2, <1>3, <1>4, <1>5, <1>6 DEF Agent

\* The inbox as others see it keeps the types.
LEMMA OthersTypes ==
  ASSUME TypeInv,
         (\E f \in Mailed \cup {NoFile} : Deliver(f)) \/ (\E u \in Uids : OpenMessage(u))
  PROVE  TypeInv'
<1> USE DEF TypeInv, TypeOK, folderVars
<1>1. ASSUME NEW f \in Mailed \cup {NoFile}, Deliver(f)
      PROVE  TypeInv'
  <2>1. /\ mail' \in Seq(Mailed \cup {NoFile}) /\ Len(mail') = Len(mail) + 1
        /\ Len(mail') <= MaxMails /\ DOMAIN mail \subseteq DOMAIN mail'
        /\ Len(mail) + 1 \in DOMAIN mail'
    BY <1>1, ArrivalsAssumption DEF Deliver
  <2>2. UNCHANGED <<folderVars, lastUid, chk, job, complete, hist>>
        /\ unseen' = unseen \cup {Len(mail) + 1}
    BY <1>1 DEF Deliver
  <2>3. MailOK'
    BY <2>1, <2>2, CheckTypes, MailTypes DEF MailOK
  <2>4. unseen' \subseteq DOMAIN mail' /\ lastUid' \in 0 .. Len(mail')
    BY <2>1, <2>2, MailTypes
  <2> QED
    BY <2>1, <2>2, <2>3, <2>4 DEF HasFile
<1>2. ASSUME NEW u \in Uids, OpenMessage(u)
      PROVE  TypeInv'
  <2>1. hist' \in History
    BY <1>2 DEF OpenMessage, History
  <2> QED
    BY <1>2, <2>1 DEF OpenMessage, MailOK, HasFile
<1> QED
  BY <1>1, <1>2

LEMMA TypeStep ==
  ASSUME TypeInv, [Next]_vars
  PROVE  TypeInv'
<1>1. CASE UNCHANGED vars
  BY <1>1 DEF vars, mailVars, folderVars, TypeInv, TypeOK, MailOK, HasFile
<1>2. CASE Folder
  BY <1>2, FolderTypes
<1>3. CASE \E c \in Checkers : Agent(c)
  BY <1>3, AgentTypes
<1>4. CASE (\E f \in Mailed \cup {NoFile} : Deliver(f)) \/ (\E u \in Uids : OpenMessage(u))
  BY <1>4, OthersTypes
<1> QED
  BY <1>1, <1>2, <1>3, <1>4 DEF Next, Watcher, Folder

THEOREM TypeInvariance == Spec => []TypeInv
<1>1. Init => TypeInv
  <2> SUFFICES ASSUME Init
               PROVE  TypeInv
    OBVIOUS
  <2>1. mail = <<>> /\ Len(mail) = 0 /\ DOMAIN mail = {}
    BY DEF Init
  <2>2. \A c \in Checkers : chk[c] = NoCheck /\ job[c] = NoJob
    BY DEF Init, Actors
  <2>3. MailOK /\ HasFile
    BY <2>1, <2>2, NoCheckType DEF MailOK, HasFile, NoJob, Init
  <2>4. hist \in History /\ lastUid \in 0 .. Len(mail)
    BY <2>1 DEF Init, History
  <2> QED
    BY <2>1, <2>3, <2>4, NoCheckType, NoJobType, ArrivalsAssumption DEF Init, TypeInv, TypeOK
<1>2. TypeInv /\ [Next]_vars => TypeInv'
  BY TypeStep
<1> QED
  BY <1>1, <1>2, PTL DEF Spec

\* Every reachable state of the arrivals is well-typed.
THEOREM TypeCorrect == Spec => []TypeOK
BY TypeInvariance, PTL DEF TypeInv

-----------------------------------------------------------------------------
(* Whoever has a file in hand found it not COMPLETE, or next to another who  *)
(* had it; a file that FIRS has cleared is COMPLETE, or its run was partial, *)
(* cut off or next to another one.                                           *)

Excuses ==
  /\ hist.again \subseteq hist.hurt
  /\ hist.cleared \subseteq hist.hurt \cup complete
  /\ \A a \in Actors :
       job[a].pc = "run" => job[a].file \notin complete \/ job[a].file \in hist.hurt
  /\ \A a, b \in Actors :
       a # b /\ job[a].pc = "run" /\ job[b].pc = "run" /\ job[a].file = job[b].file
         => job[a].file \in hist.hurt

\* A step after which nobody has taken a file, or cleared one without a mark.
LEMMA NoNewRun ==
  ASSUME TypeInv, Excuses, hist' \in History, complete' = complete,
         \A a \in Actors : job'[a].pc = "run" => job'[a] = job[a],
         hist.hurt \subseteq hist'.hurt,
         hist'.cleared \subseteq hist.cleared \cup hist'.hurt,
         hist'.again \subseteq hist.again \cup hist'.hurt
  PROVE  Excuses'
BY DEF Excuses

\* a takes f past the duplicate check.
LEMMA NewRun ==
  ASSUME TypeInv, Excuses, hist' \in History, complete' = complete,
         NEW a \in Actors, NEW f \in Files \ complete, Hold(a, "run", f),
         hist.hurt \subseteq hist'.hurt, Overlaps(a, f) => f \in hist'.hurt,
         hist'.cleared = hist.cleared, hist'.again = hist.again
  PROVE  Excuses'
<1>1. /\ job'[a].pc = "run" /\ job'[a].file = f
      /\ \A b \in Actors : b # a => job'[b] = job[b]
  BY DEF Hold, TypeInv, TypeOK
<1>2. ASSUME NEW b \in Actors, b # a, job[b].pc = "run", job[b].file = f
      PROVE  f \in hist'.hurt
  <2>1. job[b] = [pc |-> "run", file |-> f]
    BY <1>2 DEF TypeInv, TypeOK, Job
  <2> QED
    BY <1>2, <2>1 DEF Overlaps
<1> QED
  BY <1>1, <1>2 DEF Excuses

\* The run of a ends.
LEMMA RunEnds ==
  ASSUME TypeInv, Excuses, NEW a \in Actors, job[a].pc = "run", Drop(a),
         NEW h \in History, h.hurt = hist.hurt, h.cleared = hist.cleared, h.again = hist.again,
         Outcome(job[a].file, h)
  PROVE  Excuses'
<1> DEFINE f == job[a].file
<1>1. /\ job'[a].pc # "run"
      /\ \A b \in Actors : b # a => job'[b] = job[b]
  BY DEF Drop, NoJob, TypeInv, TypeOK
<1>2. f \in hist.cleared => f \in hist.hurt
  BY DEF Excuses
<1>3. \A b \in Actors : b # a /\ job[b].pc = "run" /\ job[b].file = f => f \in hist.hurt
  BY DEF Excuses
<1>4. /\ hist'.hurt \in {hist.hurt, hist.hurt \cup {f}}
      /\ hist'.again \subseteq hist.again \cup (hist.cleared \cap {f})
      /\ hist'.cleared \in {hist.cleared, hist.cleared \cup {f}}
      /\ complete' \in {complete, complete \cup {f}}
      /\ f \in hist'.cleared \ hist.cleared => f \in hist'.hurt \cup complete'
  <2>2. ASSUME NEW g, hist' = [h EXCEPT !.cleared = h.cleared \cup {f}, !.again = g]
        PROVE  hist'.cleared = h.cleared \cup {f} /\ hist'.hurt = h.hurt /\ hist'.again = g
    BY <2>2 DEF History
  <2> DEFINE g == IF f \in h.cleared THEN h.again \cup {f} ELSE h.again
  <2>3. \/ /\ complete' = complete \cup {f}
           /\ hist' = [h EXCEPT !.cleared = h.cleared \cup {f}, !.again = g]
        \/ /\ complete' = complete
           /\ hist' = [h EXCEPT !.cleared = h.cleared \cup {f}, !.hurt = h.hurt \cup {f}, !.again = g]
        \/ complete' = complete /\ hist' = h
    BY DEF Outcome
  <2>4. g \subseteq hist.again \cup (hist.cleared \cap {f})
    OBVIOUS
  <2> HIDE DEF g, f
  <2>5. CASE /\ complete' = complete \cup {f}
             /\ hist' = [h EXCEPT !.cleared = h.cleared \cup {f}, !.again = g]
    BY <2>2, <2>4, <2>5
  <2>6. CASE /\ complete' = complete
             /\ hist' = [h EXCEPT !.cleared = h.cleared \cup {f}, !.hurt = h.hurt \cup {f}, !.again = g]
    <3>1. /\ hist'.cleared = h.cleared \cup {f} /\ hist'.hurt = h.hurt \cup {f}
          /\ hist'.again = g
      BY <2>6 DEF History
    <3> QED
      BY <2>4, <2>6, <3>1
  <2>7. CASE complete' = complete /\ hist' = h
    BY <2>7
  <2> QED
    BY <2>3, <2>5, <2>6, <2>7
<1>5. hist'.again \subseteq hist'.hurt /\ hist'.cleared \subseteq hist'.hurt \cup complete'
  BY <1>2, <1>4 DEF Excuses
<1> HIDE DEF f
<1>6. \A b \in Actors :
        job'[b].pc = "run" => job'[b].file \notin complete' \/ job'[b].file \in hist'.hurt
  BY <1>1, <1>3, <1>4 DEF Excuses
<1>7. \A b, c \in Actors :
        b # c /\ job'[b].pc = "run" /\ job'[c].pc = "run" /\ job'[b].file = job'[c].file
          => job'[b].file \in hist'.hurt
  BY <1>1, <1>4 DEF Excuses
<1> QED
  BY <1>5, <1>6, <1>7 DEF Excuses

LEMMA ExcusesStep ==
  ASSUME TypeInv, TypeInv', Excuses, [Next]_vars
  PROVE  Excuses'
<1>a. /\ hist \in History /\ hist' \in History /\ job \in [Actors -> Job] /\ HasFile
      /\ Threads \subseteq Actors /\ Checkers \subseteq Actors
  BY DEF TypeInv, TypeOK, Actors
<1>b. ASSUME NEW a \in Actors, Drop(a)
      PROVE  \A b \in Actors : job'[b].pc = "run" => job'[b] = job[b]
  BY <1>a, <1>b DEF Drop, NoJob
<1>1. ASSUME UNCHANGED <<job, complete>>,
             hist'.hurt = hist.hurt, hist'.cleared = hist.cleared, hist'.again = hist.again
      PROVE  Excuses'
  BY <1>1, <1>a, NoNewRun
<1>2. CASE \/ UNCHANGED vars \/ StartWatching \/ ListFolder \/ EndScan
           \/ \E f \in Files : CreateFile(f) \/ CloseFile(f) \/ RenameFile(f)
           \/ \E f \in Mailed \cup {NoFile} : Deliver(f)
           \/ \E c \in Checkers : EndCheck(c) \/ SkipMessage(c)
  BY <1>1, <1>2 DEF vars, StartWatching, ListFolder, EndScan, CreateFile, CloseFile, RenameFile,
     Deliver, EndCheck, SkipMessage
<1>3. CASE \/ \E u \in Uids : OpenMessage(u)
           \/ \E c \in Checkers : StartCheck(c) \/ MessageFails(c)
  BY <1>1, <1>3, <1>a DEF OpenMessage, StartCheck, MessageFails, History
<1>4. ASSUME NEW f \in Files, ScanFile(f) \/ HandleCreated(f)
      PROVE  Excuses'
  <2>1. UNCHANGED <<complete, hist>>
    BY <1>4 DEF ScanFile, HandleCreated
  <2>2. \A b \in Actors : job'[b].pc = "run" => job'[b] = job[b]
    BY <1>4, <1>a DEF ScanFile, HandleCreated, Hold
  <2> QED
    BY <2>1, <2>2, <1>a, NoNewRun
<1>5. CASE StopWatching
  <2> DEFINE cut == {job[t].file : t \in {t \in Threads : job[t].pc = "run"}}
  <2>1. hist' = [hist EXCEPT !.hurt = @ \cup cut, !.cleared = @ \cup cut,
                             !.again = @ \cup (cut \cap hist.cleared)]
    BY <1>5 DEF StopWatching
  <2> HIDE DEF cut
  <2>2. /\ hist.hurt \subseteq hist'.hurt
        /\ hist'.cleared \subseteq hist.cleared \cup hist'.hurt
        /\ hist'.again \subseteq hist.again \cup hist'.hurt
    BY <2>1, <1>a DEF History
  <2>3. complete' = complete /\ \A b \in Actors : job'[b].pc = "run" => job'[b] = job[b]
    BY <1>5, <1>a DEF StopWatching, NoJob
  <2> QED
    BY <2>2, <2>3, <1>a, NoNewRun
<1>6. ASSUME NEW t \in Threads, ReadFile(t)
      PROVE  Excuses'
  <2> DEFINE f == job[t].file
  <2>0. f \in Files
    BY <1>6, <1>a DEF ReadFile, HasFile
  <2>1. /\ complete' = complete
        /\ hist.hurt \subseteq hist'.hurt
        /\ disk[f] = "closed" /\ f \notin complete /\ Overlaps(t, f) => f \in hist'.hurt
        /\ hist'.cleared = hist.cleared /\ hist'.again = hist.again
    BY <1>6, <1>a DEF ReadFile, History
  <2>2. Drop(t) \/ (disk[f] = "closed" /\ f \notin complete /\ Hold(t, "run", f))
    BY <1>6 DEF ReadFile
  <2>3. CASE Drop(t)
    BY <2>1, <2>3, <1>a, <1>b, NoNewRun
  <2>4. CASE disk[f] = "closed" /\ f \notin complete /\ Hold(t, "run", f)
    BY <2>0, <2>1, <2>4, <1>a, NewRun
  <2> QED
    BY <2>2, <2>3, <2>4
<1>7. ASSUME NEW t \in Threads, RunFile(t)
      PROVE  Excuses'
  BY <1>7, <1>a, RunEnds DEF RunFile
<1>8. ASSUME NEW c \in Checkers, TakeMessage(c)
      PROVE  Excuses'
  <2> DEFINE f == mail[FirstOf(c)]
  <2>0. chk[c].todo # {} => FirstOf(c) \in DOMAIN mail
    BY FirstExists, CheckTypes
  <2>1. CASE UNCHANGED job /\ hist' = Tried(c, FirstOf(c), hist)
    <3>1. complete' = complete
      BY <1>8 DEF TakeMessage
    <3> QED
      BY <2>1, <3>1, <1>1, <1>a DEF Tried, History
  <2>2. CASE /\ Hold(c, "run", f) /\ f \notin complete /\ f # NoFile
             /\ hist' = Tried(c, FirstOf(c),
                              [hist EXCEPT !.hurt = IF Overlaps(c, f) THEN @ \cup {f} ELSE @])
    <3>1. f \in Files \ complete
      BY <1>8, <2>0, <2>2, Taking, MailTypes, ArrivalsAssumption
    <3>2. complete' = complete
      BY <1>8 DEF TakeMessage
    <3>3. [hist EXCEPT !.hurt = IF Overlaps(c, f) THEN @ \cup {f} ELSE @] \in History
      BY <1>a, <3>1 DEF History
    <3>4. /\ hist.hurt \subseteq hist'.hurt
          /\ Overlaps(c, f) => f \in hist'.hurt
          /\ hist'.cleared = hist.cleared /\ hist'.again = hist.again
      BY <2>2, <3>3, <1>a DEF Tried, History
    <3> HIDE DEF f
    <3> QED
      BY <2>2, <3>1, <3>2, <3>4, <1>a, NewRun
  <2> QED
    BY <1>8, <2>1, <2>2, Taking
<1>9. ASSUME NEW c \in Checkers, RunMessage(c)
      PROVE  Excuses'
  <2>1. job[c].pc = "run" /\ Drop(c)
    BY <1>9 DEF RunMessage
  <2>2. /\ [hist EXCEPT !.disturbed = TRUE] \in History
        /\ [hist EXCEPT !.disturbed = TRUE].hurt = hist.hurt
        /\ [hist EXCEPT !.disturbed = TRUE].cleared = hist.cleared
        /\ [hist EXCEPT !.disturbed = TRUE].again = hist.again
    BY <1>a DEF History
  <2> QED
    BY <1>9, <2>1, <2>2, <1>a, Running, RunEnds
<1>10. ASSUME NEW c \in Checkers, CheckDies(c)
       PROVE  Excuses'
  <2> DEFINE cut == IF job[c].pc = "run" THEN {job[c].file} ELSE {}
  <2>1. hist' = [hist EXCEPT !.disturbed = TRUE, !.hurt = @ \cup cut, !.cleared = @ \cup cut,
                             !.again = @ \cup (cut \cap hist.cleared)]
    BY <1>10 DEF CheckDies
  <2> HIDE DEF cut
  <2>2. /\ hist.hurt \subseteq hist'.hurt
        /\ hist'.cleared \subseteq hist.cleared \cup hist'.hurt
        /\ hist'.again \subseteq hist.again \cup hist'.hurt
    BY <2>1, <1>a DEF History
  <2>3. complete' = complete /\ Drop(c)
    BY <1>10 DEF CheckDies
  <2> QED
    BY <2>2, <2>3, <1>a, <1>b, NoNewRun
<1> QED
  BY <1>2, <1>3, <1>4, <1>5, <1>6, <1>7, <1>8, <1>9, <1>10 DEF Next, Watcher, Agent

\* FIRS clears a file a second time only after a run of it that was PARTIAL, was
\* cut off, or went on next to another one: through any number of threads,
\* restarts, checks and copies of the file.
THEOREM ClearedOnce == Spec => []ClearedAgainIsExcused
<1>1. Init => Excuses
  BY DEF Init, Excuses, NoJob
<1>2. TypeInv /\ TypeInv' /\ Excuses /\ [Next]_vars => Excuses'
  BY ExcusesStep
<1>3. Excuses => ClearedAgainIsExcused
  BY DEF Excuses, ClearedAgainIsExcused
<1> QED
  BY <1>1, <1>2, <1>3, TypeInvariance, PTL DEF Spec

-----------------------------------------------------------------------------
(* A message with a file that nobody has processed, nor lost, lies ahead of  *)
(* last_uid and of every check in its loop, which still has it to do before  *)
(* any later one; and as long as unread messages are searched it is unread.  *)

Waits(u) == mail[u] # NoFile /\ u \notin hist.tried \cup hist.lost

AheadOf(c, u) ==
  chk[c].on =>
    /\ u > chk[c].last /\ u > chk[c].uid
    /\ \A t \in chk[c].todo : u < t => u \in chk[c].todo

Ahead ==
  \A u \in DOMAIN mail : Waits(u) =>
    /\ u > lastUid
    /\ NoLastUid => u \in unseen
    /\ \A c \in Checkers : AheadOf(c, u)

\* A step of c that keeps c behind all messages that wait.
LEMMA StaysAhead ==
  ASSUME TypeInv, TypeInv', Ahead, NEW c \in Checkers, UNCHANGED <<mail, lastUid>>,
         hist.tried \subseteq hist'.tried, hist.lost \subseteq hist'.lost,
         \A d \in Checkers : d # c => chk'[d] = chk[d],
         NoLastUid' => NoLastUid,
         \A u \in DOMAIN mail : Waits(u)' /\ u \in unseen => u \in unseen',
         \A u \in DOMAIN mail : Waits(u)' => AheadOf(c, u)'
  PROVE  Ahead'
<1>1. \A u \in DOMAIN mail : Waits(u)' => Waits(u)
  BY DEF Waits
<1>2. \A d \in Checkers, u \in DOMAIN mail : d # c /\ AheadOf(d, u) => AheadOf(d, u)'
  BY DEF AheadOf
<1> QED
  BY <1>1, <1>2 DEF Ahead

\* What c does in its loop to the messages that wait.
LEMMA LoopAhead ==
  ASSUME TypeInv, TypeInv', Ahead, NEW c \in Checkers, UNCHANGED <<mail, lastUid>>,
         hist.tried \subseteq hist'.tried, hist.lost \subseteq hist'.lost,
         NEW todo \in SUBSET chk[c].todo, NEW uid \in 0 .. Len(mail), NEW last \in 0 .. Len(mail),
         Loop(c, todo, uid, last), chk[c].last # 0 => last # 0,
         \A u \in DOMAIN mail : Waits(u)' =>
           /\ u \in unseen => u \in unseen'
           /\ u > last /\ u > uid /\ (u \in chk[c].todo => u \in todo)
  PROVE  Ahead'
<1>1. /\ chk[c].on /\ chk'[c].on /\ chk'[c].todo = todo /\ chk'[c].uid = uid
      /\ chk'[c].last = last /\ \A d \in Checkers : d # c => chk'[d] = chk[d]
  BY DEF Loop
<1>2. NoLastUid' => NoLastUid
  BY <1>1 DEF NoLastUid
<1>3. \A u \in DOMAIN mail : Waits(u)' => AheadOf(c, u)'
  <2> SUFFICES ASSUME NEW u \in DOMAIN mail, Waits(u)'
               PROVE  AheadOf(c, u)'
    OBVIOUS
  <2>1. Waits(u)
    BY DEF Waits
  <2>2. \A t \in chk[c].todo : u < t => u \in chk[c].todo
    BY <1>1, <2>1 DEF Ahead, AheadOf
  <2> QED
    BY <1>1, <2>2 DEF AheadOf
<1> QED
  BY <1>1, <1>2, <1>3, StaysAhead

LEMMA AheadStep ==
  ASSUME TypeInv, TypeInv', Ahead, [Next]_vars
  PROVE  Ahead'
<1>a. hist \in History /\ hist' \in History
  BY DEF TypeInv, TypeOK
<1>b. /\ Len(mail) \in Nat /\ DOMAIN mail = 1 .. Len(mail) /\ DOMAIN mail \subseteq Uids
      /\ lastUid \in 0 .. Len(mail) /\ unseen \subseteq DOMAIN mail
  BY MailTypes DEF TypeInv, TypeOK
<1>1. ASSUME UNCHANGED mailVars, hist'.tried = hist.tried, hist'.lost = hist.lost
      PROVE  Ahead'
  BY <1>1 DEF Ahead, AheadOf, Waits, NoLastUid, mailVars
<1>2. CASE UNCHANGED vars \/ Folder
  BY <1>1, <1>2, FolderFrame DEF vars
<1>3. ASSUME NEW f \in Mailed \cup {NoFile}, Deliver(f)
      PROVE  Ahead'
  <2>0. PICK n \in Nat : n = Len(mail) + 1
    BY <1>b
  <2>1. /\ UNCHANGED <<lastUid, chk, hist>> /\ unseen' = unseen \cup {n}
        /\ DOMAIN mail' = DOMAIN mail \cup {n} /\ n \notin DOMAIN mail
        /\ \A u \in DOMAIN mail : mail'[u] = mail[u]
    <3>1. mail \in Seq(Mailed \cup {NoFile}) /\ mail' = Append(mail, f)
      BY <1>3 DEF Deliver, TypeInv, TypeOK
    <3>2. /\ DOMAIN mail' = DOMAIN mail \cup {n} /\ n \notin DOMAIN mail
          /\ \A u \in DOMAIN mail : mail'[u] = mail[u]
      BY <2>0, <3>1, <1>b
    <3> QED
      BY <2>0, <1>3, <3>2 DEF Deliver
  <2>2. NoLastUid' <=> NoLastUid
    BY <2>1 DEF NoLastUid
  <2>3. ASSUME NEW u \in DOMAIN mail, Waits(u)'
        PROVE  /\ u > lastUid' /\ (NoLastUid' => u \in unseen')
               /\ \A c \in Checkers : AheadOf(c, u)'
    <3>1. Waits(u)
      BY <2>1, <2>3 DEF Waits
    <3> QED
      BY <2>1, <2>2, <3>1 DEF Ahead, AheadOf
  <2>4. n > lastUid' /\ n \in unseen' /\ \A c \in Checkers : AheadOf(c, n)'
    <3>1. \A c \in Checkers :
            n > chk[c].last /\ n > chk[c].uid /\ \A t \in chk[c].todo : t < n
      BY <1>b, <2>0, CheckTypes
    <3>2. \A c \in Checkers : \A t \in chk[c].todo : ~(n < t)
      BY <1>b, <2>0, <3>1, CheckTypes
    <3> QED
      BY <1>b, <2>0, <2>1, <3>1, <3>2 DEF AheadOf
  <2> QED
    BY <2>1, <2>3, <2>4 DEF Ahead
<1>4. ASSUME NEW u \in Uids, OpenMessage(u)
      PROVE  Ahead'
  <2>1. UNCHANGED <<mail, lastUid, chk>> /\ unseen' = unseen \ {u}
    BY <1>4 DEF OpenMessage
  <2>2. NoLastUid' <=> NoLastUid
    BY <2>1 DEF NoLastUid
  <2>3. /\ hist'.tried = hist.tried /\ hist.lost \subseteq hist'.lost
        /\ NoLastUid => u \in hist'.lost
    BY <1>4, <1>a DEF OpenMessage, History
  <2>4. ASSUME NEW v \in DOMAIN mail, Waits(v)'
        PROVE  Waits(v) /\ (NoLastUid => v # u)
    BY <2>1, <2>3, <2>4 DEF Waits
  <2> QED
    BY <2>1, <2>2, <2>4 DEF Ahead, AheadOf
<1>5. ASSUME NEW c \in Checkers, StartCheck(c)
      PROVE  Ahead'
  <2>1. /\ UNCHANGED <<mail, unseen, lastUid>> /\ hist'.tried = hist.tried /\ hist'.lost = hist.lost
    BY <1>5, <1>a DEF StartCheck, History
  <2>2. /\ chk'[c].todo = Found /\ chk'[c].uid = 0 /\ chk'[c].last = lastUid
        /\ \A d \in Checkers : d # c => chk'[d] = chk[d]
    BY <1>5 DEF StartCheck, TypeInv, TypeOK
  <2>3. NoLastUid' => NoLastUid
    BY <2>1, <2>2 DEF NoLastUid
  <2>4. ASSUME NEW u \in DOMAIN mail, Waits(u)'
        PROVE  AheadOf(c, u)'
    <3>1. Waits(u)
      BY <2>1, <2>4 DEF Waits
    <3>2. u > lastUid /\ (lastUid = 0 => u \in unseen)
      BY <3>1 DEF Ahead, NoLastUid
    <3>3. u \in Found
      BY <3>2 DEF Found
    <3> QED
      BY <1>b, <2>2, <3>2, <3>3 DEF AheadOf
  <2> QED
    BY <2>1, <2>2, <2>3, <2>4, StaysAhead
<1>6. ASSUME NEW c \in Checkers, SkipMessage(c) \/ MessageFails(c)
      PROVE  Ahead'
  <2> DEFINE x == FirstOf(c)
  <2>1. Loop(c, chk[c].todo \ {x}, 0, chk[c].last) /\ chk[c].todo # {} /\ chk[c].on
    BY <1>6, Passing DEF Loop
  <2>2. /\ UNCHANGED <<mail, lastUid>> /\ unseen \ {x} \subseteq unseen'
        /\ mail[x] = NoFile \/ x \in hist'.lost
    BY <1>6, <1>a DEF SkipMessage, MessageFails, History
  <2>3. hist.tried \subseteq hist'.tried /\ hist.lost \subseteq hist'.lost
    BY <1>6, <1>a DEF SkipMessage, MessageFails, History
  <2>4. \A u \in DOMAIN mail : Waits(u)' => u # x /\ u > chk[c].last /\ u > 0
    <3>1. \A u \in DOMAIN mail : Waits(u)' => u # x /\ Waits(u)
      BY <2>2, <2>3 DEF Waits
    <3> QED
      BY <1>b, <2>1, <3>1 DEF Ahead, AheadOf
  <2>5. 0 \in 0 .. Len(mail) /\ chk[c].last \in 0 .. Len(mail)
    BY <1>b, CheckTypes
  <2> HIDE DEF x
  <2> QED
    BY <2>1, <2>2, <2>3, <2>4, <2>5, LoopAhead
<1>7. ASSUME NEW c \in Checkers, TakeMessage(c)
      PROVE  Ahead'
  <2> DEFINE x == FirstOf(c)
  <2>1. /\ chk[c].todo # {} /\ chk[c].uid = 0
        /\ \/ Loop(c, chk[c].todo \ {x}, 0, x) \/ Loop(c, chk[c].todo \ {x}, x, chk[c].last)
    BY <1>7, Taking
  <2>2. chk[c].on /\ x \in chk[c].todo /\ x \in DOMAIN mail /\ \A t \in chk[c].todo : x <= t
    BY <2>1, FirstExists, CheckTypes DEF Loop
  <2>3. UNCHANGED <<mail, lastUid>> /\ unseen' = unseen \ {x}
    BY <1>7 DEF TakeMessage
  <2>4. /\ x \in hist'.tried
        /\ hist.tried \subseteq hist'.tried /\ hist.lost \subseteq hist'.lost
    <3>1. ASSUME NEW h, hist' = Tried(c, x, [hist EXCEPT !.hurt = h])
          PROVE  hist'.tried = hist.tried \cup {x} /\ hist'.lost = hist.lost
      BY <1>a, <3>1 DEF Tried, History
    <3>2. hist' = Tried(c, x, hist)
          => hist'.tried = hist.tried \cup {x} /\ hist'.lost = hist.lost
      BY <1>a DEF Tried, History
    <3> QED
      BY <1>7, <3>1, <3>2, Taking
  <2>5. ASSUME NEW u \in DOMAIN mail, Waits(u)'
        PROVE  u # x /\ u > chk[c].last /\ u > 0 /\ u > x
    <3>1. u # x /\ Waits(u)
      BY <2>3, <2>4, <2>5 DEF Waits
    <3>2. u > chk[c].last /\ (u < x => u \in chk[c].todo)
      BY <2>2, <3>1 DEF Ahead, AheadOf
    <3> QED
      BY <1>b, <2>2, <3>1, <3>2
  <2>6. /\ 0 \in 0 .. Len(mail) /\ chk[c].last \in 0 .. Len(mail)
        /\ x \in 0 .. Len(mail) /\ x # 0
    BY <1>b, <2>2, CheckTypes
  <2> HIDE DEF x
  <2>7. CASE Loop(c, chk[c].todo \ {x}, 0, x)
    BY <2>3, <2>4, <2>5, <2>6, <2>7, LoopAhead
  <2>8. CASE Loop(c, chk[c].todo \ {x}, x, chk[c].last)
    BY <2>3, <2>4, <2>5, <2>6, <2>8, LoopAhead
  <2> QED
    BY <2>1, <2>7, <2>8
<1>8. ASSUME NEW c \in Checkers, RunMessage(c)
      PROVE  Ahead'
  <2>1. chk[c].on /\ chk[c].uid \in DOMAIN mail
    BY <1>8, RunsOn
  <2>2. UNCHANGED <<mail, unseen, lastUid>> /\ job[c].pc = "run"
    BY <1>8 DEF RunMessage
  <2>3. hist'.tried = hist.tried /\ hist'.lost = hist.lost
    BY <1>8, <1>a DEF RunMessage, Outcome, History
  <2>4. \A u \in DOMAIN mail : Waits(u)' => u > chk[c].last /\ u > chk[c].uid /\ u > 0
    BY <1>b, <2>1, <2>2, <2>3 DEF Ahead, AheadOf, Waits
  <2>5. /\ 0 \in 0 .. Len(mail) /\ chk[c].last \in 0 .. Len(mail)
        /\ chk[c].uid \in 0 .. Len(mail) /\ chk[c].uid # 0
    BY <1>b, <2>1, CheckTypes
  <2>6. CASE Loop(c, chk[c].todo, 0, chk[c].uid)
    BY <2>2, <2>3, <2>4, <2>5, <2>6, LoopAhead
  <2>7. CASE Loop(c, chk[c].todo, 0, chk[c].last)
    BY <2>2, <2>3, <2>4, <2>5, <2>7, LoopAhead
  <2> QED
    BY <1>8, <2>6, <2>7, Running
<1>9. ASSUME NEW c \in Checkers, EndCheck(c)
      PROVE  Ahead'
  <2>1. /\ chk[c].on /\ lastUid' = chk[c].last /\ UNCHANGED <<mail, unseen, hist>>
        /\ chk'[c] = NoCheck /\ \A d \in Checkers : d # c => chk'[d] = chk[d]
    BY <1>9 DEF EndCheck, TypeInv, TypeOK
  <2>2. NoLastUid' => NoLastUid
    BY <2>1, NoCheckType DEF NoLastUid
  <2>3. ~chk'[c].on
    BY <2>1, NoCheckType
  <2>4. \A u \in DOMAIN mail : Waits(u)' <=> Waits(u)
    BY <2>1 DEF Waits
  <2>5. \A u \in DOMAIN mail : Waits(u) => u > lastUid'
    BY <2>1 DEF Ahead, AheadOf
  <2>6. \A d \in Checkers, u \in DOMAIN mail : AheadOf(d, u) => AheadOf(d, u)'
    BY <2>1, <2>3 DEF AheadOf
  <2> QED
    BY <2>1, <2>2, <2>4, <2>5, <2>6 DEF Ahead
<1>10. ASSUME NEW c \in Checkers, CheckDies(c)
       PROVE  Ahead'
  <2>1. /\ UNCHANGED <<mail, unseen, lastUid>> /\ hist'.tried = hist.tried /\ hist'.lost = hist.lost
    BY <1>10, <1>a DEF CheckDies, History
  <2>2. /\ chk'[c] = NoCheck /\ \A d \in Checkers : d # c => chk'[d] = chk[d]
    BY <1>10 DEF CheckDies, TypeInv, TypeOK
  <2>3. NoLastUid' => NoLastUid
    BY <2>1, <2>2, NoCheckType DEF NoLastUid
  <2>4. \A u : AheadOf(c, u)'
    BY <2>2, NoCheckType DEF AheadOf
  <2> QED
    BY <2>1, <2>2, <2>3, <2>4, StaysAhead
<1> QED
  BY <1>2, <1>3, <1>4, <1>5, <1>6, <1>7, <1>8, <1>9, <1>10 DEF Next, Watcher, Agent, Folder

\* The saved last_uid passes over no message with a file, unless its processing
\* raised, or somebody read it while there was no last_uid: through any number
\* of messages, overlapping checks, and checks that died.
THEOREM NoneMissed == Spec => []NotPassedOver
<1>1. Init => Ahead
  BY DEF Init, Ahead
<1>2. TypeInv /\ TypeInv' /\ Ahead /\ [Next]_vars => Ahead'
  BY AheadStep
<1>3. TypeInv /\ Ahead => NotPassedOver
  <2> SUFFICES ASSUME TypeInv, Ahead, NEW u \in DOMAIN mail, u <= lastUid, mail[u] # NoFile
               PROVE  u \in hist.tried \cup hist.lost
    BY DEF NotPassedOver
  <2>1. ~(u > lastUid)
    BY MailTypes DEF TypeInv, TypeOK
  <2> QED
    BY <2>1 DEF Ahead, Waits
<1> QED
  BY <1>1, <1>2, <1>3, TypeInvariance, PTL DEF Spec

-----------------------------------------------------------------------------
(* As long as one check runs at a time, ends by itself and can set the flag, *)
(* it goes upwards, and what it has processed lies at or below last_uid.     *)

InOrder(c) ==
  /\ \A t \in hist.tried : t <= chk[c].last \/ t = chk[c].uid
  /\ \A t \in chk[c].todo :
       t >= chk[c].last /\ t >= chk[c].uid /\ (t \in hist.tried => t = chk[c].top)
  /\ chk[c].uid # 0 => chk[c].last <= chk[c].uid

Calm ==
  /\ hist.repeated = {}
  /\ \A c, d \in Checkers : chk[c].on /\ chk[d].on => c = d
  /\ \A c \in Checkers : chk[c].on => InOrder(c)
  /\ (\A c \in Checkers : ~chk[c].on) => \A t \in hist.tried : t <= lastUid

Once == hist.disturbed \/ Calm

\* The check that runs goes on, in order.
LEMMA StaysCalm ==
  ASSUME TypeInv, Calm, NEW c \in Checkers, chk[c].on, chk'[c].on,
         \A d \in Checkers : d # c => chk'[d] = chk[d],
         hist'.repeated = {}, InOrder(c)'
  PROVE  Calm'
<1>1. \A d \in Checkers : d # c => ~chk[d].on
  BY DEF Calm
<1> QED
  BY <1>1 DEF Calm

LEMMA OnceStep ==
  ASSUME TypeInv, TypeInv', Once, [Next]_vars
  PROVE  Once'
<1>a. hist \in History /\ hist' \in History
  BY DEF TypeInv, TypeOK
<1>b. /\ Len(mail) \in Nat /\ DOMAIN mail = 1 .. Len(mail)
      /\ lastUid \in 0 .. Len(mail) /\ hist.tried \subseteq Uids
      /\ \A u \in Uids : u \in Nat /\ u > 0
  BY MailTypes DEF TypeInv, TypeOK, History, Uids
<1>c. ASSUME UNCHANGED <<chk, lastUid>>, hist'.tried = hist.tried,
             hist'.repeated = hist.repeated, hist'.disturbed = hist.disturbed
      PROVE  Once'
  BY <1>c DEF Once, Calm, InOrder
<1>1. CASE \/ UNCHANGED vars \/ Folder
           \/ \E f \in Mailed \cup {NoFile} : Deliver(f)
  BY <1>1, <1>c, FolderFrame DEF vars, mailVars, Deliver
<1>2. ASSUME NEW u \in Uids, OpenMessage(u)
      PROVE  Once'
  BY <1>2, <1>a, <1>c DEF OpenMessage, History
<1>3. ASSUME NEW c \in Checkers, StartCheck(c)
      PROVE  Once'
  <2>1. /\ UNCHANGED lastUid /\ hist'.tried = hist.tried /\ hist'.repeated = hist.repeated
        /\ hist'.disturbed = (hist.disturbed \/ \E d \in Checkers : chk[d].on)
    BY <1>3, <1>a DEF StartCheck, History
  <2>2. /\ chk'[c].todo = Found /\ chk'[c].uid = 0 /\ chk'[c].last = lastUid
        /\ chk'[c].top = Len(mail) /\ mail # <<>>
        /\ \A d \in Checkers : d # c => chk'[d] = chk[d]
    BY <1>3 DEF StartCheck, TypeInv, TypeOK
  <2>3. CASE hist'.disturbed
    BY <2>3 DEF Once
  <2>4. CASE ~hist'.disturbed
    <3>1. Calm /\ \A d \in Checkers : ~chk[d].on
      BY <2>1, <2>4 DEF Once
    <3>2. \A t \in hist.tried : t <= lastUid
      BY <3>1 DEF Calm
    <3>3. \A t \in Found : t \in DOMAIN mail /\ t >= lastUid /\ (t > lastUid \/ t = Len(mail))
      BY <1>b DEF Found, TypeInv, TypeOK
    <3>4. \A t \in Found : t \in hist.tried => t = Len(mail)
      BY <1>b, <3>2, <3>3
    <3>5. InOrder(c)'
      BY <1>b, <2>1, <2>2, <3>2, <3>3, <3>4 DEF InOrder
    <3>6. \A d \in Checkers : chk'[d].on => d = c
      BY <2>2, <3>1
    <3>7. chk'[c].on
      BY <1>3 DEF StartCheck, TypeInv, TypeOK
    <3> QED
      BY <2>1, <3>1, <3>5, <3>6, <3>7 DEF Once, Calm
  <2> QED
    BY <2>3, <2>4
<1>4. ASSUME NEW c \in Checkers, SkipMessage(c) \/ MessageFails(c)
      PROVE  Once'
  <2>1. /\ Loop(c, chk[c].todo \ {FirstOf(c)}, 0, chk[c].last) /\ chk[c].uid = 0
    BY <1>4, Passing
  <2>2. /\ hist'.tried = hist.tried
        /\ hist'.repeated = hist.repeated /\ hist'.disturbed = hist.disturbed
    BY <1>4, <1>a DEF SkipMessage, MessageFails, History
  <2>3. Calm => InOrder(c)'
    BY <2>1, <2>2 DEF Calm, InOrder, Loop
  <2>4. Calm => Calm'
    BY <2>1, <2>2, <2>3, StaysCalm DEF Loop, Calm
  <2> QED
    BY <2>2, <2>4 DEF Once
<1>5. ASSUME NEW c \in Checkers, TakeMessage(c)
      PROVE  Once'
  <2> DEFINE x == FirstOf(c)
  <2>1. /\ chk[c].todo # {} /\ chk[c].uid = 0
        /\ \/ Loop(c, chk[c].todo \ {x}, 0, x) \/ Loop(c, chk[c].todo \ {x}, x, chk[c].last)
    BY <1>5, Taking
  <2>2. chk[c].on /\ x \in chk[c].todo /\ x \in DOMAIN mail /\ \A t \in chk[c].todo : x <= t
    BY <2>1, FirstExists, CheckTypes DEF Loop
  <2>3. /\ hist'.tried = hist.tried \cup {x} /\ hist'.disturbed = hist.disturbed
        /\ hist'.repeated = IF x \in hist.tried /\ x # chk[c].top THEN hist.repeated \cup {x}
                                                                 ELSE hist.repeated
    <3>1. ASSUME NEW h, hist' = Tried(c, x, [hist EXCEPT !.hurt = h])
          PROVE  /\ hist'.tried = hist.tried \cup {x} /\ hist'.disturbed = hist.disturbed
                 /\ hist'.repeated = IF x \in hist.tried /\ x # chk[c].top
                                       THEN hist.repeated \cup {x} ELSE hist.repeated
      BY <1>a, <3>1 DEF Tried, History
    <3>2. hist' = Tried(c, x, hist)
          => /\ hist'.tried = hist.tried \cup {x} /\ hist'.disturbed = hist.disturbed
             /\ hist'.repeated = IF x \in hist.tried /\ x # chk[c].top
                                   THEN hist.repeated \cup {x} ELSE hist.repeated
      BY <1>a DEF Tried, History
    <3> QED
      BY <1>5, <3>1, <3>2, Taking
  <2>4. UNCHANGED lastUid
    BY <1>5 DEF TakeMessage
  <2>5. chk[c].last \in Nat /\ x \in Nat /\ x > 0 /\ \A t \in chk[c].todo : t \in Nat
    BY <1>b, <2>2, CheckTypes
  <2> HIDE DEF x
  <2>6. ASSUME Calm
        PROVE  Calm'
    <3>1. InOrder(c) /\ hist.repeated = {}
      BY <2>2, <2>6 DEF Calm
    <3>2. hist'.repeated = {}
      BY <2>2, <2>3, <3>1 DEF InOrder
    <3>3. x >= chk[c].last /\ \A t \in hist.tried : t <= chk[c].last
      <4>1. \A t \in hist.tried : t <= chk[c].last \/ t = 0
        BY <2>1, <3>1 DEF InOrder
      <4> QED
        BY <1>b, <2>2, <3>1, <4>1 DEF InOrder
    <3>4. \A t \in hist'.tried : t <= x
      BY <1>b, <2>3, <2>5, <3>3
    <3>5. \A t \in chk[c].todo \ {x} : t >= x /\ t >= chk[c].last /\ t >= 0
                                     /\ (t \in hist'.tried => t = chk[c].top)
      BY <2>2, <2>3, <2>5, <3>1 DEF InOrder
    <3>6. CASE Loop(c, chk[c].todo \ {x}, 0, x)
      <4>1. InOrder(c)'
        BY <3>4, <3>5, <3>6 DEF InOrder, Loop
      <4> QED
        BY <2>2, <2>6, <3>2, <3>6, <4>1, StaysCalm DEF Loop
    <3>7. CASE Loop(c, chk[c].todo \ {x}, x, chk[c].last)
      <4>1. \A t \in hist'.tried : t <= chk[c].last \/ t = x
        BY <2>3, <3>3
      <4>2. InOrder(c)'
        BY <2>5, <3>3, <3>5, <3>7, <4>1 DEF InOrder, Loop
      <4> QED
        BY <2>2, <2>6, <3>2, <3>7, <4>2, StaysCalm DEF Loop
    <3> QED
      BY <2>1, <3>6, <3>7
  <2> QED
    BY <2>3, <2>6 DEF Once
<1>6. ASSUME NEW c \in Checkers, RunMessage(c)
      PROVE  Once'
  <2>1. chk[c].on /\ chk[c].uid \in DOMAIN mail
    BY <1>6, RunsOn
  <2>2. hist'.tried = hist.tried /\ hist'.repeated = hist.repeated
        /\ (hist'.disturbed = hist.disturbed \/ hist'.disturbed)
    BY <1>6, <1>a DEF RunMessage, Outcome, History
  <2>3. CASE Loop(c, chk[c].todo, 0, chk[c].uid) /\ Outcome(job[c].file, hist)
    <3>1. ASSUME Calm
          PROVE  Calm'
      <4>1. InOrder(c)
        BY <2>1, <3>1 DEF Calm
      <4>2. /\ chk[c].uid \in Nat /\ chk[c].uid # 0 /\ chk[c].last \in Nat
            /\ \A t \in hist.tried : t \in Nat
            /\ \A t \in chk[c].todo : t \in Nat
        BY <1>b, <2>1, CheckTypes
      <4>3. \A t \in hist.tried : t <= chk[c].uid
        BY <4>1, <4>2 DEF InOrder
      <4>4. \A t \in chk[c].todo :
              t >= chk[c].uid /\ t >= 0 /\ (t \in hist.tried => t = chk[c].top)
        <5>1. \A t \in chk[c].todo : t >= chk[c].uid /\ (t \in hist.tried => t = chk[c].top)
          BY <4>1 DEF InOrder
        <5>2. \A t \in chk[c].todo : t \in Nat
          BY <4>2
        <5> QED
          BY <5>1, <5>2
      <4>5. /\ chk'[c].todo = chk[c].todo /\ chk'[c].uid = 0 /\ chk'[c].last = chk[c].uid
            /\ chk'[c].top = chk[c].top
        BY <2>3 DEF Loop
      <4>6. InOrder(c)'
        BY <2>2, <4>3, <4>4, <4>5 DEF InOrder
      <4> QED
        BY <2>1, <2>2, <2>3, <3>1, <4>6, StaysCalm DEF Loop, Calm
    <3> QED
      BY <2>2, <3>1 DEF Once
  <2>4. CASE Outcome(job[c].file, [hist EXCEPT !.disturbed = TRUE])
    <3>1. hist'.disturbed
      BY <1>a, <2>4 DEF Outcome, History
    <3> QED
      BY <3>1 DEF Once
  <2> QED
    BY <1>6, <2>3, <2>4, Running
<1>7. ASSUME NEW c \in Checkers, EndCheck(c)
      PROVE  Once'
  <2>1. /\ chk[c].on /\ lastUid' = chk[c].last /\ UNCHANGED hist /\ job[c].pc = "none"
        /\ chk'[c] = NoCheck /\ \A d \in Checkers : d # c => chk'[d] = chk[d]
    BY <1>7 DEF EndCheck, Idle, TypeInv, TypeOK
  <2>2. ASSUME Calm
        PROVE  Calm'
    <3>1. chk[c].uid = 0 /\ InOrder(c)
      BY <2>1, <2>2 DEF Calm, TypeInv, MailOK
    <3>2. \A t \in hist.tried : t <= lastUid'
      BY <1>b, <2>1, <3>1 DEF InOrder
    <3>3. \A d \in Checkers : ~chk'[d].on
      BY <2>1, <2>2, NoCheckType DEF Calm
    <3> QED
      BY <2>1, <2>2, <3>2, <3>3 DEF Calm
  <2> QED
    BY <2>1, <2>2 DEF Once
<1>8. ASSUME NEW c \in Checkers, CheckDies(c)
      PROVE  Once'
  <2>1. hist'.disturbed
    BY <1>8, <1>a DEF CheckDies, History
  <2> QED
    BY <2>1 DEF Once
<1> QED
  BY <1>1, <1>2, <1>3, <1>4, <1>5, <1>6, <1>7, <1>8 DEF Next, Watcher, Agent, Folder

\* Of the messages it has processed the agent processes only the newest again,
\* unless a check died, ran beside another one, or could not set the flag.
THEOREM OnlyNewestAgain == Spec => []RepeatIsNewest
<1>1. Init => Once
  BY NoCheckType DEF Init, Once, Calm
<1>2. TypeInv /\ TypeInv' /\ Once /\ [Next]_vars => Once'
  BY OnceStep
<1>3. Once => RepeatIsNewest
  BY DEF Once, Calm, RepeatIsNewest
<1> QED
  BY <1>1, <1>2, <1>3, TypeInvariance, PTL DEF Spec
=============================================================================
