-------------------------------- MODULE Chat --------------------------------
(***************************************************************************)
(* The chat tab of the panel.  One list on screen shows the last messages  *)
(* of the current channel.  It is reloaded by a poll, by changes of the    *)
(* class space and after every redraw; each reload waits for the store,    *)
(* and reloads overlap with each other, with redraws that put a new empty  *)
(* list on screen and with the list of group rooms, which may take the     *)
(* current channel away.  The text being typed outlives the redraws.       *)
(***************************************************************************)
EXTENDS Integers, Sequences, FiniteSets, SequencesExt

CONSTANTS
    Class,         \* the channel of the class
    Groups,        \* channels of group rooms
    Blank,         \* an empty list, nothing read yet, no signature
    PAGE,          \* messages a window grows by
    MaxId,         \* bound: messages are 1..MaxId, in the order of their time
    FirstMessages, \* what a channel may hold when the tab opens
    MaxEvents,     \* bound: user actions and arrivals
    MaxReads       \* bound: reloads under way at once

ASSUME ChatAssumption == {PAGE, MaxId} \subseteq Nat /\ FirstMessages \subseteq SUBSET (1..MaxId)

VARIABLES
    messages,  \* [Channels -> SUBSET 1..MaxId]: stored and not deleted
    rooms,     \* group rooms that exist
    home,      \* whether the class space is linked
    channel, loadedChannel, limit, lastSig, renderedIds, groups,
    screen,    \* the list on screen: whose messages, and which
    header,    \* the channel the head of the tab names
    reads,     \* reloads under way, in the order they began; the last is current
    refreshes, \* refreshGroups under way
    input,     \* words in the input
    sends,     \* messages being sent
    typed,     \* history: words typed, sent, or typed while a send was under way
    unread,    \* history: the store changed since the current reload read it
    missed,    \* history: a change in the middle left the signature as it was
    events     \* bound: events so far

chatVars == <<messages, rooms, home, channel, loadedChannel, limit, lastSig, renderedIds,
              groups, screen, header, reads, refreshes, input, sends, typed, unread, missed, events>>
stored == <<messages, rooms, home>>
text == <<input, sends, typed>>

Channels == {Class} \cup Groups
Ids == 1..MaxId
Happens == events < MaxEvents /\ events' = events + 1

\* The last n messages of a set, oldest first.
InOrder(ids) == [i \in 1..Cardinality(ids) |-> CHOOSE m \in ids : Cardinality({k \in ids : k <= m}) = i]
Recent(ids, n) ==
    LET sorted == InOrder(ids)
    IN IF Len(sorted) > n THEN SubSeq(sorted, Len(sorted) - n + 1, Len(sorted)) ELSE sorted

MessageListSig(c, l, msgs) ==
    IF msgs = <<>> THEN <<c, l, 0>> ELSE <<c, l, Len(msgs), Head(msgs), Last(msgs)>>
SameEnds(s, m) == Len(s) = Len(m) /\ s # <<>> /\ Head(s) = Head(m) /\ Last(s) = Last(m)
IsAppendable(rendered, ids) ==
    rendered # <<>> /\ Len(rendered) < Len(ids) /\ IsPrefix(rendered, ids)

NoHome == "no-home"
Shown(c, ids) == [of |-> c, ids |-> ids]
EmptyList == Shown(Blank, <<>>)

ChatInit ==
    /\ messages \in [Channels -> FirstMessages] /\ rooms \in SUBSET Groups /\ home = TRUE
    /\ channel = Class /\ loadedChannel = Blank /\ limit = PAGE /\ lastSig = <<>> /\ renderedIds = <<>>
    /\ groups = {} /\ screen = EmptyList /\ header = Class
    /\ reads = <<>> /\ refreshes = <<>>
    /\ input = {} /\ sends = <<>> /\ typed = [all |-> 0, sent |-> {}, late |-> {}]
    /\ unread = TRUE /\ missed = FALSE /\ events = 0

-----------------------------------------------------------------------------
(* Reloading.                                                              *)

\* What a reload resets when the channel is another one; the class without its
\* space is answered at once.
Reset(c) == c # loadedChannel
LimitFor(c) == IF Reset(c) THEN PAGE ELSE limit
Answered(c) == c = Class /\ ~home
Room == Len(reads) < MaxReads
BeginReload(c, l, list, rendered, sig) ==
    /\ loadedChannel' = c
    /\ IF Answered(c)
       THEN /\ screen' = IF sig = <<NoHome>> THEN list ELSE Shown(NoHome, <<>>)
            /\ renderedIds' = IF sig = <<NoHome>> THEN rendered ELSE <<>>
            /\ lastSig' = <<NoHome>> /\ limit' = l
            /\ reads' = [i \in DOMAIN reads |-> [reads[i] EXCEPT !.current = FALSE]]
            /\ unread' = FALSE /\ missed' = FALSE
       ELSE /\ Room
            /\ screen' = list /\ renderedIds' = rendered /\ lastSig' = sig /\ limit' = l
            /\ reads' = Append([i \in DOMAIN reads |-> [reads[i] EXCEPT !.current = FALSE]],
                               [of |-> c, limit |-> l, current |-> TRUE, got |-> <<Blank>>])
            /\ unread' = TRUE /\ UNCHANGED missed

\* reload: keeps the list on screen.
Reload(c) ==
    BeginReload(c, LimitFor(c), screen, IF Reset(c) THEN <<>> ELSE renderedIds,
                IF Reset(c) THEN <<>> ELSE lastSig)
\* draw: a new list, which forgets what was rendered, an input that takes the
\* text of the old one, and a reload.
\* Faulty Draw: what was rendered in the old list is remembered.
RemembersOldList(c) ==
    /\ header' = c /\ input' = input
    /\ BeginReload(c, LimitFor(c), EmptyList, IF Reset(c) THEN <<>> ELSE renderedIds,
                   IF Reset(c) THEN <<>> ELSE lastSig)
Draw(c) ==
    /\ header' = c /\ input' = input
    /\ BeginReload(c, LimitFor(c), EmptyList, <<>>, <<>>)

ReadMessages(i) ==
    /\ i \in DOMAIN reads /\ reads[i].got = <<Blank>>
    /\ LET r == reads[i]
           found == IF Answered(r.of) THEN {} ELSE messages[r.of]
       IN /\ reads' = [reads EXCEPT ![i].got = Recent(found, r.limit + 1)]
          /\ unread' = (unread /\ ~(r.current /\ r.of = channel /\ ~Answered(r.of)))
    /\ UNCHANGED <<stored, channel, loadedChannel, limit, lastSig, renderedIds, groups, screen, header,
                   refreshes, text, missed, events>>

Overtaken(r) == ~r.current
ShowMessages(i) ==
    LET r == reads[i]
        \* the window and its signature use the limit of the moment
        msgs == IF Len(r.got) > limit THEN Tail(r.got) ELSE r.got
        sig == MessageListSig(channel, limit, msgs)
    IN
    /\ i \in DOMAIN reads /\ r.got # <<Blank>>
    /\ reads' = RemoveAt(reads, i)
    /\ IF Overtaken(r) \/ sig = lastSig
       THEN /\ missed' = (missed \/ (~Overtaken(r) /\ SameEnds(renderedIds, msgs) /\ renderedIds # msgs))
            /\ UNCHANGED <<lastSig, renderedIds, screen>>
       ELSE /\ lastSig' = sig /\ renderedIds' = msgs /\ missed' = FALSE
            /\ screen' = IF IsAppendable(renderedIds, msgs)
                         THEN Shown(r.of, screen.ids \o SubSeq(msgs, Len(renderedIds) + 1, Len(msgs)))
                         ELSE Shown(r.of, msgs)
    /\ UNCHANGED <<stored, channel, loadedChannel, limit, groups, header, refreshes, text, unread, events>>

-----------------------------------------------------------------------------
(* The list of group rooms.                                                *)

RefreshGroups(andDraw) ==
    refreshes' = Append(refreshes, [draw |-> andDraw, got |-> {Blank}])
ReadGroups(i) ==
    /\ i \in DOMAIN refreshes /\ refreshes[i].got = {Blank}
    /\ refreshes' = [refreshes EXCEPT ![i].got = IF home THEN rooms ELSE {}]
    /\ UNCHANGED <<stored, channel, loadedChannel, limit, lastSig, renderedIds, groups, screen, header,
                   reads, text, unread, missed, events>>
\* A current group room that is not listed gives way to the class; a list that
\* changed, or the deletion of a room, redraws.
ShowGroups(i) ==
    LET r == refreshes[i]
        gone == channel \in Groups /\ channel \notin r.got
        next == IF gone THEN Class ELSE channel
    IN
    /\ i \in DOMAIN refreshes /\ r.got # {Blank}
    /\ refreshes' = RemoveAt(refreshes, i)
    /\ groups' = r.got /\ channel' = next
    /\ IF gone \/ r.got # groups \/ r.draw THEN Draw(next)
       ELSE UNCHANGED <<loadedChannel, limit, lastSig, renderedIds, screen, header, reads, input, unread, missed>>
    /\ UNCHANGED <<stored, sends, typed, events>>

-----------------------------------------------------------------------------
(* The timer and the store.                                                *)

\* Every four seconds; taken when the reads of the one before have ended.
Poll ==
    /\ refreshes = <<>> /\ \A i \in DOMAIN reads : ~reads[i].current
    /\ RefreshGroups(FALSE) /\ Reload(channel)
    /\ UNCHANGED <<stored, channel, groups, header, text, events>>

\* The class space announces its changes; other channels wait for the poll.
StoreChanges(c, ids) ==
    /\ messages' = [messages EXCEPT ![c] = ids]
    /\ IF c = Class /\ channel = Class
       THEN Reload(Class)
       ELSE /\ unread' = (unread \/ c = channel)
            /\ UNCHANGED <<loadedChannel, limit, lastSig, renderedIds, screen, reads, missed>>
    /\ UNCHANGED <<rooms, home, channel, groups, header>>
MessageArrives(c, m) ==
    /\ Happens /\ m \notin messages[c] /\ ~Answered(c)
    /\ StoreChanges(c, messages[c] \cup {m})
    /\ UNCHANGED <<refreshes, text>>
MessageDeleted(c, m) ==
    /\ Happens /\ m \in messages[c] /\ ~Answered(c)
    /\ StoreChanges(c, messages[c] \ {m})
    /\ UNCHANGED <<refreshes, text>>
RoomsChange(g) ==
    /\ Happens
    /\ rooms' = IF g \in rooms THEN rooms \ {g} ELSE rooms \cup {g}
    /\ UNCHANGED <<messages, home, channel, loadedChannel, limit, lastSig, renderedIds, groups, screen,
                   header, reads, refreshes, text, unread, missed>>
HomeChanges ==
    /\ Happens
    /\ home' = ~home /\ unread' = (unread \/ channel = Class)
    /\ UNCHANGED <<messages, rooms, channel, loadedChannel, limit, lastSig, renderedIds, groups, screen,
                   header, reads, refreshes, text, missed>>

-----------------------------------------------------------------------------
(* The user.                                                               *)

ChooseChannel(c) ==
    /\ Happens /\ c \in {Class} \cup groups
    /\ channel' = c /\ Draw(c)
    /\ UNCHANGED <<stored, groups, refreshes, sends, typed>>
LoadMore ==
    /\ Happens /\ channel = loadedChannel /\ screen.of = channel
    /\ Cardinality(messages[channel]) > Len(screen.ids) /\ Len(screen.ids) = limit
    /\ BeginReload(channel, limit + PAGE, screen, renderedIds, lastSig)
    /\ UNCHANGED <<stored, channel, groups, header, refreshes, text>>
\* The room on screen is deleted; the class takes over before anything is drawn.
DeleteRoom ==
    /\ Happens /\ header \in groups /\ channel = header
    /\ rooms' = rooms \ {header} /\ channel' = Class /\ unread' = TRUE
    /\ RefreshGroups(TRUE)
    /\ UNCHANGED <<messages, home, loadedChannel, limit, lastSig, renderedIds, groups, screen, header,
                   reads, text, missed>>

Type ==
    /\ Happens
    /\ input' = input \cup {typed.all + 1}
    /\ typed' = [typed EXCEPT !.all = @ + 1, !.late = IF sends = <<>> THEN @ ELSE @ \cup {typed.all + 1}]
    /\ UNCHANGED <<stored, channel, loadedChannel, limit, lastSig, renderedIds, groups, screen, header,
                   reads, refreshes, sends, unread, missed>>
\* One message at a time; sent twice before the input is emptied, the text would stand twice.
Send ==
    /\ Happens /\ input # {} /\ sends = <<>>
    /\ sends' = <<[to |-> channel, words |-> input]>>
    /\ UNCHANGED <<stored, channel, loadedChannel, limit, lastSig, renderedIds, groups, screen, header,
                   reads, refreshes, input, typed, unread, missed>>
\* The message is stored and the input emptied, or the channel has no space and
\* the text stays; then a reload (the store's own announcement starts one, too).
Sent(m) ==
    LET s == sends[1]
        ok == s.to # Class \/ home
    IN
    /\ sends # <<>> /\ m \notin messages[s.to]
    /\ sends' = <<>>
    /\ messages' = IF ok THEN [messages EXCEPT ![s.to] = @ \cup {m}] ELSE messages
    /\ input' = IF ok THEN {} ELSE input
    /\ typed' = IF ok THEN [typed EXCEPT !.sent = @ \cup s.words] ELSE typed
    /\ Reload(channel)
    /\ UNCHANGED <<rooms, home, channel, groups, header, refreshes, events>>

-----------------------------------------------------------------------------
ChatNext ==
    \/ \E i \in DOMAIN reads : ReadMessages(i) \/ ShowMessages(i)
    \/ \E i \in DOMAIN refreshes : ReadGroups(i) \/ ShowGroups(i)
    \/ Poll \/ HomeChanges \/ LoadMore \/ DeleteRoom \/ Type \/ Send
    \/ \E c \in Channels : ChooseChannel(c) \/ \E m \in Ids : MessageArrives(c, m) \/ MessageDeleted(c, m)
    \/ \E g \in Groups : RoomsChange(g)
    \/ \E m \in Ids : Sent(m)
ChatSpec == ChatInit /\ [][ChatNext]_chatVars

\* Reloads, redraws and channel changes may overlap in any way: once the current
\* reload has read the store after its last change and nothing is under way, the
\* list on screen is the window of the current channel (the notice that the
\* class has no space counts as such).  Excepted is a change in the middle of
\* the window that keeps its length and its ends, which the signature misses.
ShownIsCurrent ==
    (reads = <<>> /\ ~unread /\ ~missed) =>
      IF Answered(channel) THEN screen.of = NoHome
      ELSE screen = Shown(channel, Recent(messages[channel], limit))

\* What was typed is in the input, being sent or sent: no redraw and no failed
\* send loses it.  Excepted is what was typed while a send was under way.
TypedIsKept ==
    1..typed.all \subseteq input \cup typed.sent \cup typed.late

\* The tab is true to the store and to its user: it comes to show what is stored, and
\* loses nothing that was typed (ChatSection.ts).
TabIsTrue == ShownIsCurrent /\ TypedIsKept
=============================================================================
