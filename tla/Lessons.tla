------------------------------- MODULE Lessons -------------------------------
(***************************************************************************)
(* Notices, lessons and the timetable on the manager's device.             *)
(*                                                                         *)
(* A notice or a lesson is a file; its frontmatter decides.  A document of *)
(* the class space, the notice, repeats what the frontmatter says, and the *)
(* timetable of a week links cells to lessons.  Every event of the vault   *)
(* starts an asynchronous handler that reads a document, waits, and writes *)
(* it back with the revision it read; a write that finds another revision  *)
(* throws and the handler ends there.  Handlers of one file overlap; the   *)
(* placements alone are queued.  The view of a week writes the timetable   *)
(* document it has on screen, outside that queue.                          *)
(*                                                                         *)
(* A handler's first read is taken with the event that starts it.          *)
(***************************************************************************)
EXTENDS Integers, FiniteSets, Sequences, SequencesExt

CONSTANTS
    Paths,     \* paths of notice and lesson files
    Uids,      \* the uid a file's frontmatter carries
    Weeks,     \* weeks that have a timetable
    Cells,     \* cells of a week
    None,      \* no file, no lesson in a cell, no view on screen
    MaxEdits,  \* bound: user actions on files, notices and the view
    MaxTasks   \* bound: handlers running at once

VARIABLES
    file,       \* [Paths -> frontmatter or None]
    notice,     \* [Uids -> NoticeDoc], rev 0 while there is none
    timetable,  \* [Weeks -> TimetableDoc], rev 0 while there is none
    changed,    \* files whose frontmatter Obsidian has still to announce
    tasks,      \* running handlers, in the order they started
    queue,      \* placeQueue: placements, the first one running
    view,       \* the timetable document on screen, or None
    behind,     \* history: uids whose last handler was refused or crossed
    edits       \* bound: user actions so far

lessonVars == <<file, notice, timetable, changed, tasks, queue, view, behind, edits>>

-----------------------------------------------------------------------------
\* day and period of the frontmatter: a cell of a week, labels the timetable
\* does not have, left blank, or no such keys (a notice, an old lesson).
AtCell(w, c) == [kind |-> "cell", week |-> w, cell |-> c]
Unplaced(kind) == [kind |-> kind, week |-> None, cell |-> None]
Slots == {AtCell(w, c) : w \in Weeks, c \in Cells}
           \cup {Unplaced(k) : k \in {"unknown", "blank", "absent"}}
Frontmatter == [uid : Uids, published : BOOLEAN, slot : Slots]
NoticeDoc == [rev : Nat, path : Paths \cup {None}, published : BOOLEAN, deleted : BOOLEAN]

\* The document's lessons and cells; "by" is history: who wrote it, for which
\* lesson, and which lessons the writer had found gone.
Author == [kind : {"none", "place", "link", "cell", "first", "cleanup"},
           uid : Uids \cup {None}, gone : SUBSET Uids]
TimetableDoc == [rev : Nat, lessons : [Cells -> Uids \cup {None}], subjects : SUBSET Cells,
                 by : Author]
By(kind, uid, gone) == [kind |-> kind, uid |-> uid, gone |-> gone]
DefaultDoc == [rev |-> 0, lessons |-> [c \in Cells |-> None], subjects |-> {},
               by |-> By("none", None, {})]

Live(u) == notice[u].rev > 0 /\ ~notice[u].deleted
UidsInUse == {file[p].uid : p \in {q \in Paths : file[q] # None}}
LiveAt(p) == {u \in Uids : Live(u) /\ notice[u].path = p}

PlaceLessonSlot(lessons, u, c) ==
    [d \in Cells |-> IF d = c THEN u ELSE IF lessons[d] = u THEN None ELSE lessons[d]]
RemoveLessonSlot(lessons, u) == [d \in Cells |-> IF lessons[d] = u THEN None ELSE lessons[d]]

NothingSeen == [w \in Weeks |-> DefaultDoc]

\* A task: what it is about, what it has read, and its next step.
Task(kind, pc, at, u) ==
    [kind |-> kind, pc |-> pc, at |-> at, path |-> at, uid |-> u,
     published |-> FALSE, slot |-> Unplaced("absent"), rev |-> 0, victims |-> {}, seen |-> NothingSeen]

Room == Len(tasks) < MaxTasks
MayAct == edits < MaxEdits /\ edits' = edits + 1

StartTask(t) == Room /\ tasks' = Append(tasks, t)
Goto(i, pc) == tasks' = [tasks EXCEPT ![i].pc = pc]
\* What an event about the file at p with this uid crosses: handlers of the same
\* file or uid that are running, and those about to retire its notice.
Crossed(p, u) ==
    LET others == {i \in DOMAIN tasks : tasks[i].at = p \/ tasks[i].uid = u
                                         \/ u \in tasks[i].victims}
    IN IF others = {} THEN {}
       ELSE ({u} \cup LiveAt(p) \cup {tasks[i].uid : i \in others}) \ {None}
Running(kind) == {i \in DOMAIN tasks : tasks[i].kind = kind}
UidAt(p) == IF file[p] = None THEN None ELSE file[p].uid

EndTask(i) == tasks' = RemoveAt(tasks, i)

\* A class at rest, as the handlers leave it: every file has its notice, a placed
\* lesson its cell.
LessonsInit ==
    /\ file \in {f \in [Paths -> Frontmatter \cup {None}] :
                  \A p, q \in Paths : p # q /\ f[p] # None /\ f[q] # None =>
                     f[p].uid # f[q].uid /\ (f[p].slot = f[q].slot => f[p].slot.kind # "cell")}
    /\ notice = [u \in Uids |->
                   IF u \in UidsInUse
                   THEN LET p == CHOOSE q \in Paths : UidAt(q) = u
                        IN [rev |-> 1, path |-> p, published |-> file[p].published, deleted |-> FALSE]
                   ELSE [rev |-> 0, path |-> None, published |-> FALSE, deleted |-> FALSE]]
    /\ LET LessonAt(w, c) == {u \in UidsInUse : \E p \in Paths : UidAt(p) = u /\ file[p].slot = AtCell(w, c)}
       IN timetable = [w \in Weeks |->
            [DefaultDoc EXCEPT
               !.rev = IF \E c \in Cells : LessonAt(w, c) # {} THEN 1 ELSE 0,
               !.lessons = [c \in Cells |-> IF LessonAt(w, c) = {} THEN None
                                             ELSE CHOOSE u \in LessonAt(w, c) : TRUE]]]
    /\ changed = {} /\ tasks = <<>> /\ queue = <<>> /\ view = None
    /\ behind = {} /\ edits = 0

-----------------------------------------------------------------------------
(* The store.  put replaces the document it was given; a document without  *)
(* a revision takes the one the store holds.  update re-reads until its    *)
(* change fits, so softDelete never fails.                                 *)

PutNotice(u, rev, path, published, deleted) ==
    /\ notice[u].rev = rev
    /\ notice' = [notice EXCEPT ![u] =
                    [rev |-> rev + 1, path |-> path, published |-> published, deleted |-> deleted]]
SoftDelete(us) ==
    notice' = [u \in Uids |-> IF u \in us /\ notice[u].rev > 0
                              THEN [notice[u] EXCEPT !.rev = @ + 1, !.deleted = TRUE]
                              ELSE notice[u]]
\* Faulty TimetableRefuses: a put that does not compare revisions.
BlindPut(w, rev) == FALSE
TimetableRefuses(w, rev) == timetable[w].rev # rev
PutTimetable(w, rev, lessons, subjects, by) ==
    /\ ~TimetableRefuses(w, rev)
    /\ timetable' = [timetable EXCEPT ![w] =
                       [rev |-> rev + 1, lessons |-> lessons, subjects |-> subjects, by |-> by]]

-----------------------------------------------------------------------------
(* The user.                                                               *)

\* A draft from the panel, or from a cell of the view (which it then links).
CreateDraft(p, u, slot, pc) ==
    /\ MayAct /\ file[p] = None /\ u \notin UidsInUse /\ notice[u].rev = 0
    /\ \A i \in DOMAIN tasks : tasks[i].uid # u
    /\ file' = [file EXCEPT ![p] = [uid |-> u, published |-> FALSE, slot |-> slot]]
    /\ changed' = changed \cup {p}
    /\ behind' = (behind \ {u}) \cup Crossed(p, u)
    /\ StartTask([Task(pc, "look", p, u) EXCEPT !.slot = slot])
    /\ UNCHANGED <<notice, timetable, queue, view>>
NewNotice(p, u) == CreateDraft(p, u, Unplaced("absent"), "draft")
CreateLesson(p, u, c) ==
    /\ view # None /\ ~(view.doc.lessons[c] # None /\ Live(view.doc.lessons[c]))
    /\ CreateDraft(p, u, AtCell(view.week, c), "lesson")

\* A uid no other file carries and nothing is at work on elsewhere: bound, a file
\* does not take a uid over from another one.
Free(u, p) ==
    /\ \A q \in Paths \ {p} : UidAt(q) # u
    /\ Live(u) => notice[u].path = p
    /\ \A i \in DOMAIN tasks : u \notin tasks[i].victims /\ (tasks[i].uid = u => tasks[i].at = p)

\* An edit of the frontmatter, by hand or by another program; a file another
\* program writes appears with its frontmatter.
EditFile(p, f) ==
    /\ MayAct /\ file[p] # f /\ Free(f.uid, p)
    /\ file' = [file EXCEPT ![p] = f]
    /\ changed' = changed \cup {p}
    /\ UNCHANGED <<notice, timetable, tasks, queue, view, behind>>

\* The vault announces a deletion at once: the handler lists the notices and retires
\* the first it finds of this path.
OneOf(us) == IF us = {} THEN {{}} ELSE {{u} : u \in us}
FileGone(p, others) ==
    /\ file' = [file EXCEPT ![p] = None]
    /\ changed' = changed \ {p}
    /\ behind' = behind \cup Crossed(p, UidAt(p))
    /\ \E found \in OneOf(LiveAt(p)) :
         tasks' = Append(others, [Task("deleted", "retire", p, None) EXCEPT !.victims = found])
DeleteFile(p) ==
    /\ MayAct /\ Room /\ file[p] # None
    /\ FileGone(p, tasks)
    /\ UNCHANGED <<notice, timetable, queue, view>>

RenameFile(p, q) ==
    /\ MayAct /\ Room /\ file[p] # None /\ file[q] = None
    /\ file' = [file EXCEPT ![q] = file[p], ![p] = None]
    /\ changed' = {IF r = p THEN q ELSE r : r \in changed}
    /\ behind' = behind \cup Crossed(p, UidAt(p))
                   \cup (IF Running("cleanup") = {} THEN {} ELSE LiveAt(p))
    /\ LET moved == [i \in DOMAIN tasks |->
                       IF tasks[i].at = p /\ tasks[i].kind \in {"sync", "draft", "lesson"}
                       THEN [tasks[i] EXCEPT !.at = q] ELSE tasks[i]]
           found == LiveAt(p)
       IN IF found = {} THEN tasks' = moved
          ELSE \E u \in found :
                 tasks' = Append(moved,
                            [Task("renamed", "write", q, u) EXCEPT
                               !.rev = notice[u].rev, !.published = notice[u].published])
    /\ UNCHANGED <<notice, timetable, queue, view>>

\* The buttons of a notice on the panel act on the document the panel shows.
SetNoticePublished(u, published) ==
    /\ MayAct /\ Live(u)
    /\ StartTask([Task("publish", "write", notice[u].path, u) EXCEPT
                    !.rev = notice[u].rev, !.published = published])
    /\ behind' = behind \cup Crossed(notice[u].path, u)
    /\ UNCHANGED <<file, notice, timetable, changed, queue, view>>
DeleteNotice(u) ==
    /\ MayAct /\ Live(u)
    /\ SoftDelete({u})
    /\ StartTask(Task("delete", "trash", notice[u].path, u))
    /\ behind' = behind \cup Crossed(notice[u].path, u)
    /\ UNCHANGED <<file, timetable, changed, queue, view>>

-----------------------------------------------------------------------------
(* Handlers.                                                               *)

\* Whether the notice already says what the file does.
\* Faulty SaysTheSame: a retired notice passes for a current one.
SaysTheSameEvenRetired(n, p, published) == n.rev > 0 /\ n.path = p /\ n.published = published
SaysTheSame(n, p, published) ==
    n.rev > 0 /\ ~n.deleted /\ n.path = p /\ n.published = published

\* "changed" of the metadata cache: putNoticeDoc skips what is already so.
SyncNoticeFromFile(p) ==
    /\ p \in changed
    /\ changed' = changed \ {p}
    /\ behind' = (IF Running("cleanup") = {} THEN behind \ {UidAt(p)} ELSE behind)
                   \cup Crossed(p, UidAt(p))
    /\ LET f == file[p]
           n == notice[f.uid]
           pc == IF SaysTheSame(n, p, f.published) THEN "list" ELSE IF n.rev = 0 THEN "look" ELSE "write"
       IN StartTask([Task("sync", pc, p, f.uid) EXCEPT
                       !.published = f.published, !.slot = f.slot, !.rev = n.rev])
    /\ UNCHANGED <<file, notice, timetable, queue, view, edits>>

\* put of a document without a revision looks up the stored one first.
LookUp(i) ==
    /\ tasks[i].pc = "look"
    /\ tasks' = [tasks EXCEPT ![i].pc = "write", ![i].rev = notice[tasks[i].uid].rev]
    /\ UNCHANGED <<file, notice, timetable, changed, queue, view, behind, edits>>

AfterWrite(kind) ==
    CASE kind = "sync" -> "list" [] kind = "lesson" -> "link"
      [] kind = "publish" -> "frontmatter" [] OTHER -> "end"
WriteNotice(i) ==
    LET t == tasks[i] IN
    /\ t.pc = "write"
    /\ PutNotice(t.uid, t.rev, t.path, t.published, FALSE)
    /\ IF AfterWrite(t.kind) = "end" THEN EndTask(i) ELSE Goto(i, AfterWrite(t.kind))
    /\ UNCHANGED <<file, timetable, changed, queue, view, behind, edits>>
\* 409: the handler throws, and the file is behind unless it has changed since.
RefuseNotice(i) ==
    LET t == tasks[i] IN
    /\ t.pc = "write" /\ notice[t.uid].rev # t.rev
    /\ EndTask(i)
    /\ behind' = behind \cup (IF t.kind = "publish" \/ t.at \in changed THEN {} ELSE {t.uid} \cup LiveAt(t.at))
    /\ UNCHANGED <<file, notice, timetable, changed, queue, view, edits>>

\* setNoticePublished: the file follows the document.
WriteFrontmatter(i) ==
    LET t == tasks[i]
        here == file[t.at] # None
    IN
    /\ t.pc = "frontmatter"
    /\ EndTask(i)
    /\ file' = IF here THEN [file EXCEPT ![t.at].published = t.published] ELSE file
    /\ changed' = changed \cup {p \in {t.at} : here /\ file[p].published # t.published}
    /\ UNCHANGED <<notice, timetable, queue, view, behind, edits>>

\* Older notices of the same file: listed, then soft-deleted one by one.
ListStaleNotices(i) ==
    LET t == tasks[i] IN
    /\ t.pc = "list"
    /\ tasks' = [tasks EXCEPT ![i].pc = "retire", ![i].victims = LiveAt(t.at) \ {t.uid}]
    /\ behind' = behind \cup {u \in LiveAt(t.at) \ {t.uid} : \E j \in DOMAIN tasks : tasks[j].uid = u}
    /\ UNCHANGED <<file, notice, timetable, changed, queue, view, edits>>
RetireNotices(i) ==
    LET t == tasks[i] IN
    /\ t.pc = "retire"
    /\ SoftDelete(t.victims)
    /\ EndTask(i)
    /\ queue' = IF t.kind = "sync" /\ t.slot.kind # "absent"
                THEN Append(queue, [uid |-> t.uid, slot |-> t.slot, pc |-> "read", seen |-> NothingSeen])
                ELSE queue
    /\ UNCHANGED <<file, timetable, changed, view, behind, edits>>

\* deleteNotice: the file goes to the trash, which the vault announces.
TrashFile(i) ==
    LET t == tasks[i] IN
    /\ t.pc = "trash"
    /\ IF file[t.at] = None
       THEN EndTask(i) /\ UNCHANGED <<file, changed, behind>>
       ELSE FileGone(t.at, RemoveAt(tasks, i))
    /\ UNCHANGED <<notice, timetable, queue, view, edits>>

-----------------------------------------------------------------------------
(* Placements, one at a time.                                              *)

Job == queue[1]
OnCell == Job.slot.kind = "cell"
JobDone == queue' = Tail(queue)
\* Weeks other than the target that still link the lesson.
ToUnlink == {w \in Weeks : /\ ~(OnCell /\ w = Job.slot.week)
                           /\ \E c \in Cells : Job.seen[w].lessons[c] = Job.uid}

\* Labels the timetable does not have leave the lesson where it is.
PlaceRead ==
    /\ queue # <<>> /\ Job.pc = "read"
    /\ IF Job.slot.kind = "unknown" THEN JobDone
       ELSE queue' = [queue EXCEPT ![1].pc = "unlink", ![1].seen = timetable]
    /\ UNCHANGED <<file, notice, timetable, changed, tasks, view, behind, edits>>
PlaceUnlink(w) ==
    /\ queue # <<>> /\ Job.pc = "unlink" /\ w \in ToUnlink
    /\ LET doc == Job.seen[w]
           rest == RemoveLessonSlot(doc.lessons, Job.uid)
       IN \/ /\ PutTimetable(w, doc.rev, rest, doc.subjects, By("place", Job.uid, {}))
             /\ queue' = [queue EXCEPT ![1].seen[w].lessons = rest]
          \/ TimetableRefuses(w, doc.rev) /\ JobDone /\ UNCHANGED timetable
    /\ UNCHANGED <<file, notice, changed, tasks, view, behind, edits>>
\* The target: a document that was not there takes the revision of one stored
\* meanwhile.
PlaceTarget ==
    /\ queue # <<>> /\ Job.pc = "unlink" /\ ToUnlink = {}
    /\ IF ~OnCell THEN JobDone
       ELSE LET w == Job.slot.week
                doc == Job.seen[w]
            IN CASE PlaceLessonSlot(doc.lessons, Job.uid, Job.slot.cell) = doc.lessons -> JobDone
                 [] doc.rev = 0 -> queue' = [queue EXCEPT ![1].pc = "first",
                                               ![1].seen[w].rev = timetable[w].rev]
                 [] OTHER -> queue' = [queue EXCEPT ![1].pc = "write"]
    /\ UNCHANGED <<file, notice, timetable, changed, tasks, view, behind, edits>>
PlaceWrite ==
    /\ queue # <<>> /\ Job.pc \in {"first", "write"}
    /\ LET w == Job.slot.week
           doc == Job.seen[w]
       IN \/ PutTimetable(w, doc.rev, PlaceLessonSlot(doc.lessons, Job.uid, Job.slot.cell),
                doc.subjects, By(IF Job.pc = "first" THEN "first" ELSE "place", Job.uid, {}))
          \/ TimetableRefuses(w, doc.rev) /\ UNCHANGED timetable
    /\ JobDone
    /\ UNCHANGED <<file, notice, changed, tasks, view, behind, edits>>

-----------------------------------------------------------------------------
(* The view of a week: it is opened once, drawn again after every change   *)
(* of the store, and writes the whole document it shows.                   *)

RenderTimetable(w) ==
    /\ view # None => view.week = w /\ view.doc # timetable[w]
    /\ view' = [week |-> w, doc |-> timetable[w]]
    /\ UNCHANGED <<file, notice, timetable, changed, tasks, queue, behind, edits>>

\* A put of the document on screen; it keeps its old revision there.
PutView(doc, kind, u) ==
    LET w == view.week IN
    IF doc.rev = 0
    THEN PutTimetable(w, timetable[w].rev, doc.lessons, doc.subjects, By("first", u, {}))
    ELSE \/ PutTimetable(w, doc.rev, doc.lessons, doc.subjects, By(kind, u, {}))
         \/ TimetableRefuses(w, doc.rev) /\ UNCHANGED timetable

SetCell(c) ==
    /\ MayAct /\ view # None
    /\ LET subjects == view.doc.subjects
           doc == [view.doc EXCEPT !.subjects = IF c \in subjects THEN subjects \ {c}
                                                ELSE subjects \cup {c}]
       IN PutView(doc, "cell", None) /\ view' = [view EXCEPT !.doc = doc]
    /\ UNCHANGED <<file, notice, changed, tasks, queue, behind>>

\* createLesson links the new lesson to its cell in the document on screen by
\* then, and draws again unless the write was refused.
LinkLesson(i) ==
    LET t == tasks[i]
        doc == [view.doc EXCEPT !.lessons[t.slot.cell] = t.uid]
    IN
    /\ t.pc = "link"
    /\ PutView(doc, "link", t.uid)
    /\ EndTask(i)
    /\ view' = [view EXCEPT !.doc = IF timetable' = timetable THEN doc ELSE timetable'[view.week]]
    /\ UNCHANGED <<file, notice, changed, queue, behind, edits>>

-----------------------------------------------------------------------------
(* cleanupClassroomDocs: duplicates, orphans, dangling links.              *)

Cleanup ==
    /\ MayAct
    /\ StartTask(Task("cleanup", "duplicates", None, None))
    /\ behind' = behind \cup ({tasks[i].uid : i \in DOMAIN tasks} \ {None})
    /\ UNCHANGED <<file, notice, timetable, changed, queue, view>>

\* One notice a file is kept: the one its frontmatter names, or the newest.
Keepers(p) ==
    LET named == {u \in LiveAt(p) : file[p] # None /\ file[p].uid = u}
    IN IF named # {} THEN named ELSE LiveAt(p)
ListDuplicates(i) ==
    /\ tasks[i].pc = "duplicates"
    /\ \E keep \in SUBSET Uids :
         /\ \A p \in Paths : LiveAt(p) # {} => \E u \in Keepers(p) : keep \cap LiveAt(p) = {u}
         /\ keep \subseteq UNION {LiveAt(p) : p \in Paths}
         /\ tasks' = [tasks EXCEPT ![i].pc = "orphans",
                        ![i].victims = UNION {LiveAt(p) : p \in Paths} \ keep]
    /\ UNCHANGED <<file, notice, timetable, changed, queue, view, behind, edits>>
\* The duplicates go, and the orphans are listed and go with the next step.
ListOrphans(i) ==
    /\ tasks[i].pc = "orphans"
    /\ SoftDelete(tasks[i].victims)
    /\ tasks' = [tasks EXCEPT ![i].pc = "links",
                   ![i].victims = {u \in Uids : Live(u) /\ u \notin tasks[i].victims
                                                /\ file[notice[u].path] = None}]
    /\ UNCHANGED <<file, timetable, changed, queue, view, behind, edits>>
ListLinks(i) ==
    LET t == tasks[i] IN
    /\ t.pc = "links"
    /\ SoftDelete(t.victims)
    /\ tasks' = [tasks EXCEPT ![i].pc = "unlink", ![i].seen = timetable,
                   ![i].victims = {u \in Uids : ~Live(u) \/ u \in t.victims}]
    /\ UNCHANGED <<file, timetable, changed, queue, view, behind, edits>>
\* The cells of lessons that were gone are emptied, a timetable at a time.
UnlinkGone(i) ==
    LET t == tasks[i]
        Rest(w) == [c \in Cells |-> IF t.seen[w].lessons[c] \in t.victims THEN None
                                    ELSE t.seen[w].lessons[c]]
        dangling == {w \in Weeks : Rest(w) # t.seen[w].lessons}
    IN
    /\ t.pc = "unlink"
    /\ IF dangling = {} THEN EndTask(i) /\ UNCHANGED timetable
       ELSE \E w \in dangling :
              LET doc == t.seen[w] IN
              \/ /\ PutTimetable(w, doc.rev, Rest(w), doc.subjects, By("cleanup", None, t.victims))
                 /\ tasks' = [tasks EXCEPT ![i].seen[w].lessons = Rest(w)]
              \/ TimetableRefuses(w, doc.rev) /\ EndTask(i) /\ UNCHANGED timetable
    /\ UNCHANGED <<file, notice, changed, queue, view, behind, edits>>

-----------------------------------------------------------------------------
UserStep ==
    \/ \E p \in Paths, u \in Uids : NewNotice(p, u)
    \/ \E p \in Paths, u \in Uids, c \in Cells : CreateLesson(p, u, c)
    \/ \E p \in Paths, f \in Frontmatter : EditFile(p, f)
    \/ \E p \in Paths : DeleteFile(p)
    \/ \E p, q \in Paths : RenameFile(p, q)
    \/ \E u \in Uids, b \in BOOLEAN : SetNoticePublished(u, b)
    \/ \E u \in Uids : DeleteNotice(u)
    \/ \E c \in Cells : SetCell(c)
    \/ Cleanup
HandlerStep ==
    \/ \E p \in Paths : SyncNoticeFromFile(p)
    \/ \E i \in DOMAIN tasks :
         \/ LookUp(i) \/ WriteNotice(i) \/ RefuseNotice(i) \/ WriteFrontmatter(i)
         \/ ListStaleNotices(i) \/ RetireNotices(i) \/ TrashFile(i) \/ LinkLesson(i)
         \/ ListDuplicates(i) \/ ListOrphans(i) \/ ListLinks(i) \/ UnlinkGone(i)
    \/ PlaceRead \/ PlaceTarget \/ PlaceWrite
    \/ \E w \in Weeks : PlaceUnlink(w) \/ RenderTimetable(w)
LessonsNext == UserStep \/ HandlerStep
LessonsSpec == LessonsInit /\ [][LessonsNext]_lessonVars

-----------------------------------------------------------------------------
LessonsTypeOK ==
    /\ file \in [Paths -> Frontmatter \cup {None}]
    /\ notice \in [Uids -> NoticeDoc]
    /\ timetable \in [Weeks -> TimetableDoc]
    /\ changed \subseteq Paths /\ behind \subseteq Uids
    /\ \A i \in DOMAIN tasks : tasks[i].uid \in Uids \cup {None} /\ tasks[i].seen \in [Weeks -> TimetableDoc]
    /\ \A i \in DOMAIN queue : queue[i].slot \in Slots /\ queue[i].uid \in Uids
    /\ view # None => view.week \in Weeks /\ view.doc \in TimetableDoc
    /\ edits \in 0..MaxEdits

\* Nothing is announced or running any more.
AtRest == changed = {} /\ tasks = <<>> /\ queue = <<>>

\* Once nothing is running, a file and its notice agree in both directions: a
\* file has a live notice that knows its path and whether it is published, and
\* a live notice has a file that carries its uid.  Only a file whose last
\* handler threw or overlapped another one of the same file is excepted.  The
\* state is well formed throughout.
NoticeFollowsFile ==
    /\ LessonsTypeOK
    /\ AtRest =>
      /\ \A p \in Paths : UidAt(p) \notin behind \cup {None} =>
           LET n == notice[file[p].uid]
           IN Live(file[p].uid) /\ n.path = p /\ n.published = file[p].published
      /\ \A u \in Uids : Live(u) /\ u \notin behind => UidAt(notice[u].path) = u

\* Placements accumulate: a write to the timetable takes a lesson out of its
\* cell only if it places that lesson anew, puts another one there, or cleans
\* up a lesson it had found gone.  The exception is a writer that had read no
\* timetable at all: its document replaces whatever was stored meanwhile.
PlacementsAccumulate ==
    [][\A w \in Weeks, c \in Cells :
         LET u == timetable[w].lessons[c]
             by == timetable'[w].by
         IN (u # None /\ timetable'[w].lessons[c] # u) =>
              \/ by.kind = "place" /\ by.uid = u
              \/ by.kind \in {"place", "link"} /\ timetable'[w].lessons[c] = by.uid
              \/ by.kind = "cleanup" /\ u \in by.gone
              \/ by.kind = "first"]_lessonVars
=============================================================================
