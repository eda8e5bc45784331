---------------------------- MODULE ChannelRelay ----------------------------
(***************************************************************************)
(* One document's channel over several server processes (collabhub.ts,     *)
(* bus.ts, routes/channel.ts) and the pages at their sockets (channel.ts,  *)
(* channelclient.ts of the web client).                                    *)
(*                                                                         *)
(* A position is drawn from the database, its row is inserted, and only    *)
(* then does the process that took the post tell its own sockets and put a *)
(* notice on the bus.  A process that hears a notice reads the rows past   *)
(* its watermark and sends them to its sockets.  Notices are lost while a  *)
(* process has no listener, and publishing may fail; the watermark and the *)
(* resync after a reconnect are to make up for both.                       *)
(***************************************************************************)
EXTENDS Integers, Sequences, FiniteSets, FiniteSetsExt, Functions

CONSTANTS
    Procs,       \* server processes
    Conns,       \* connections; a page that redials comes back as another
    MaxPosts,    \* bound: positions drawn
    MaxTrims,    \* bound: checkpoints committed
    MaxFaults,   \* bound: crashes, lost listeners, failed publishes and tabs
                 \* closed in the middle
    SlowRows,    \* TRUE: others act between drawing a position and its row
    LiveReplay,  \* TRUE: frames reach a page between its welcome and its
                 \* replay
    GappySaves,  \* TRUE: a page may save while a frame below its last one
                 \* is still on the way
    SplitHello,  \* TRUE: a checkpoint falls between a welcome and its replay
    LateNews     \* TRUE: a page is welcomed, or told of a checkpoint made
                 \* beside it, before its process has handled the notice of
                 \* an earlier one

ASSUME RelayAssumption ==
    /\ MaxPosts \in Nat /\ MaxTrims \in Nat /\ MaxFaults \in Nat
    /\ {SlowRows, LiveReplay, GappySaves, SplitHello, LateNews} \subseteq BOOLEAN

VARIABLES
    author,    \* the connection that drew each position, in order
    rows,      \* positions with a row in channel_messages
    trim,      \* the content marker: the stored bytes hold all up to here
    trims,     \* checkpoints so far
    stored,    \* history: the frames in the bytes the last checkpoint stored
    page,      \* what is known of each connection, at both ends
    post,      \* the position a connection's post handler has drawn, or 0
    mark,      \* each process's watermark
    reading,   \* whether a process has asked where the log stands
    listener,  \* whether a process hears the bus
    inbox,     \* notices a process has yet to handle
    due,       \* reads of rows a process has under way
    resyncs,   \* whether a process has yet to catch up after a reconnect
    faults     \* how many faults there have been

logVars == <<author, rows, trim, trims, stored>>
pageVars == <<page, post>>
hubVars == <<mark, reading, due>>
busVars == <<listener, inbox, resyncs>>
vars == <<logVars, pageVars, hubVars, busVars, faults>>

-----------------------------------------------------------------------------
(* Types *)

NoMark == -1
Positions == 1..MaxPosts
PagePhases == {"new", "joined", "welcomed", "live", "reloading", "gone"}
Page == [pc : PagePhases, at : Procs, base : Nat, got : SUBSET Positions]
NoFrames(pc, p, base) == [pc |-> pc, at |-> p, base |-> base, got |-> {}]
Ended(pg, pc) == NoFrames(pc, pg.at, 0)
Notice == [kind : {"log", "truncated"}, seq : Nat, from : Procs]
(* deliverRows in progress: the rows it asked for, and the watermark its   *)
(* caller sets when it has sent them (NoMark: the caller sets none).       *)
Delivery == [after : Int, upTo : Int, sets : Int]

RelayTypeOK ==
    /\ author \in Seq(Conns) /\ Len(author) <= MaxPosts
    /\ rows \subseteq DOMAIN author
    /\ stored \subseteq DOMAIN author
    /\ trim \in 0..Len(author) /\ trims \in 0..MaxTrims
    /\ page \in [Conns -> Page]
    /\ post \in [Conns -> {0} \cup DOMAIN author]
    /\ mark \in [Procs -> {NoMark, 0} \cup DOMAIN author]
    /\ reading \in [Procs -> BOOLEAN]
    /\ listener \in [Procs -> {"boot", "hearing", "deaf"}]
    /\ \A p \in Procs : inbox[p] \in Seq(Notice)
    /\ \A p \in Procs : due[p] \subseteq Delivery
    /\ resyncs \in [Procs -> BOOLEAN]
    /\ faults \in 0..MaxFaults

Init ==
    /\ author = <<>> /\ rows = {} /\ stored = {} /\ trim = 0 /\ trims = 0
    /\ \E p \in Procs : page = [c \in Conns |-> NoFrames("new", p, 0)]
    /\ post = [c \in Conns |-> 0]
    /\ mark = [p \in Procs |-> NoMark]
    /\ reading = [p \in Procs |-> FALSE]
    /\ listener = [p \in Procs |-> "boot"]
    /\ inbox = [p \in Procs |-> <<>>]
    /\ due = [p \in Procs |-> {}]
    /\ resyncs = [p \in Procs |-> FALSE]
    /\ faults = 0

-----------------------------------------------------------------------------
(* Helpers *)

Last == Len(author)
Larger(a, b) == IF a < b THEN b ELSE a

Members(p) == {c \in Conns : page[c].at = p
                  /\ page[c].pc \in {"joined", "welcomed", "live", "reloading"}}

(* The counter a page seals into each frame it posts.                      *)
Counter(q) == Cardinality({k \in 1..q : author[k] = author[q]})

(* acceptFrame over frames that arrive in the order of their positions: a  *)
(* sender's counter goes on by one each time, and what it has passed is    *)
(* dropped.  While the replay is not over a sender may begin anywhere.  A  *)
(* counter that skips makes the page reload, and one whose socket was not  *)
(* welcomed yet, or that reloads, takes nothing.                           *)
Taken(c, s) == {q \in page[c].got : author[q] = s}
Floor(c, s, sent) ==
    CASE Taken(c, s) # {} -> Counter(Max(Taken(c, s)))
      [] Taken(c, s) = {} /\ page[c].pc = "welcomed" -> Counter(Min(sent)) - 1
      [] OTHER -> 0
Fresh(c, s, sent) == {q \in sent : Counter(q) > Floor(c, s, sent)}
(* Mutant for InOrderOrAnew: only a frame already passed is looked for.    *)
SkipsUnnoticed(c, s, sent) == Fresh(c, s, sent) = {} /\ sent = {}
Skips(c, s, sent) ==
    Fresh(c, s, sent) # {} /\ Counter(Max(Fresh(c, s, sent)))
                                # Floor(c, s, sent) + Cardinality(Fresh(c, s, sent))

Accept(c, arriving) ==
    LET from(s) == {q \in arriving : author[q] = s}
        senders == {author[q] : q \in arriving} \ {c}
    IN  IF page[c].pc \notin {"welcomed", "live"} THEN page[c]
        ELSE IF \E s \in senders : Skips(c, s, from(s))
             THEN Ended(page[c], "reloading")
             ELSE [page[c] EXCEPT !.got = @ \cup UNION {Fresh(c, s, from(s)) : s \in senders}]

NoneReplaying(p) == LiveReplay \/ \A c \in Members(p) : page[c].pc # "welcomed"

Sent(cs, arriving) == [c \in Conns |-> IF c \in cs THEN Accept(c, arriving) ELSE page[c]]

(* A checkpoint is announced.  A page whose editor runs reloads; one that  *)
(* is still opening lands on the new bytes, or has its bytes already and   *)
(* opens from them; one that was not welcomed yet does not listen.  An     *)
(* editor that runs has no phase of its own here: a page that has posted   *)
(* has one, one that has not may have.                                     *)
Crossed(pg, how, upTo) ==
    CASE how = "lands" -> [pg EXCEPT !.base = upTo]
      [] how = "reloads" /\ pg.pc = "live" -> Ended(pg, "reloading")
      [] OTHER -> pg
Cross(cs, upTo) ==
    LET opening == {c \in cs : page[c].pc = "welcomed"
                                  \/ (page[c].pc = "live" /\ c \notin Range(author))}
    IN  \E how \in [opening -> {"lands", "opens", "reloads"}] :
            /\ \A c \in opening : page[c].pc = "welcomed" => how[c] # "reloads"
            /\ page' = [c \in Conns |->
                 IF c \in opening THEN Crossed(page[c], how[c], upTo)
                 ELSE IF c \in cs THEN Crossed(page[c], "reloads", upTo) ELSE page[c]]

(* pg_notify: one order for everybody who listens, the sender included.    *)
Heard(notice) == [p \in Procs |->
    IF listener[p] = "hearing" THEN Append(inbox[p], notice) ELSE inbox[p]]

(* A process has yet to hear of a checkpoint made at another one.          *)
Behind(p) == \E i \in DOMAIN inbox[p] :
    inbox[p][i].kind = "truncated" /\ inbox[p][i].from # p

Fault == faults < MaxFaults /\ faults' = faults + 1

-----------------------------------------------------------------------------
(* The socket's life *)

(* The presence row is written and the hub takes the socket; the first one *)
(* for the document asks where the log stands.                             *)
Join(c, p) ==
    /\ page[c].pc = "new"
    /\ page' = [page EXCEPT ![c] = NoFrames("joined", p, 0)]
    /\ reading' = [reading EXCEPT ![p] = @ \/ mark[p] = NoMark]
    /\ UNCHANGED <<logVars, post, mark, due, busVars, faults>>

(* ... and takes the answer, unless a notice was faster.                   *)
Baseline(p) ==
    /\ reading[p]
    /\ reading' = [reading EXCEPT ![p] = FALSE]
    /\ mark' = [mark EXCEPT ![p] = IF @ = NoMark THEN Last ELSE @]
    /\ UNCHANGED <<logVars, pageVars, due, busVars, faults>>

(* hello: the welcome names the marker the page's bytes are paired with,   *)
(* the replay is every row there is.  The question where the log stands    *)
(* was asked before and is answered before.                                *)
Hello(c) ==
    /\ page[c].pc = "joined" /\ ~reading[page[c].at]
    /\ LateNews \/ ~Behind(page[c].at)
    /\ page' = [page EXCEPT ![c] = NoFrames("welcomed", page[c].at, trim)]
    /\ UNCHANGED <<logVars, post, hubVars, busVars, faults>>

(* The tail arrives, and "caught-up" seals the counters.                   *)
Replay(c) ==
    /\ page[c].pc = "welcomed"
    /\ page' = [page EXCEPT ![c] =
         LET taken == Accept(c, rows)
         IN  IF taken.pc = "welcomed" THEN [taken EXCEPT !.pc = "live"] ELSE taken]
    /\ UNCHANGED <<logVars, post, hubVars, busVars, faults>>

(* The socket closes: a tab, a network, a reload that goes through.        *)
Leave(c) ==
    /\ \/ page[c].pc = "reloading" /\ UNCHANGED faults
       \/ page[c].pc \in {"joined", "welcomed", "live"} /\ Fault
    /\ page' = [page EXCEPT ![c] = Ended(@, "gone")]
    /\ UNCHANGED <<logVars, post, hubVars, busVars>>

-----------------------------------------------------------------------------
(* A post *)

(* nextChannelSeq.  A page that reloads posts what its engine still holds. *)
Draw(c) ==
    /\ page[c].pc \in {"live", "reloading"} /\ post[c] = 0
    /\ Last < MaxPosts
    /\ author' = Append(author, c)
    /\ rows' = IF SlowRows THEN rows ELSE rows \cup {Last + 1}
    /\ post' = [post EXCEPT ![c] = Last + 1]
    /\ UNCHANGED <<trim, trims, stored, page, hubVars, busVars, faults>>

InsertRow(c) ==
    /\ SlowRows /\ post[c] # 0 /\ post[c] \notin rows
    /\ rows' = rows \cup {post[c]}
    /\ UNCHANGED <<author, trim, trims, stored, pageVars, hubVars, busVars, faults>>

(* Mutant for NothingSteppedOver: the process's own post moves the mark    *)
(* past what others drew.                                                  *)
BroadcastStepping(c) ==
    LET seq == post[c]
        p == page[c].at
    IN  /\ seq # 0 /\ (SlowRows => seq \in rows) /\ NoneReplaying(p)
        /\ page' = [Sent(Members(p) \ {c}, {seq}) EXCEPT ![c].got =
                       IF page[c].pc = "live" THEN @ \cup {seq} ELSE @]
        /\ mark' = [mark EXCEPT ![p] = Larger(IF @ = NoMark THEN 0 ELSE @, seq)]
        /\ post' = [post EXCEPT ![c] = 0]
        /\ inbox' = Heard([kind |-> "log", seq |-> seq, from |-> p])
        /\ UNCHANGED <<logVars, reading, due, listener, resyncs, faults>>

(* PgNotifyHub.broadcast of a log frame: the sockets here, the rows others *)
(* drew in between, the watermark, the notice; then the sender's ack.      *)
Broadcast(c) ==
    LET seq == post[c]
        p == page[c].at
        behind == mark[p] # NoMark /\ Members(p) # {} /\ seq - 1 > mark[p]
    IN  /\ seq # 0 /\ (SlowRows => seq \in rows) /\ NoneReplaying(p)
        /\ page' = [Sent(Members(p) \ {c}, {seq}) EXCEPT ![c].got =
                       IF page[c].pc = "live" THEN @ \cup {seq} ELSE @]
        /\ due' = IF behind
                  THEN [due EXCEPT ![p] = @ \cup {[after |-> mark[p], upTo |-> seq - 1,
                                                   sets |-> NoMark]}]
                  ELSE due
        /\ mark' = [mark EXCEPT ![p] = Larger(IF @ = NoMark THEN 0 ELSE @, seq)]
        /\ post' = [post EXCEPT ![c] = 0]
        /\ \/ /\ inbox' = Heard([kind |-> "log", seq |-> seq, from |-> p])
              /\ UNCHANGED faults
           \/ /\ Fault  \* the publisher is down: nobody hears
              /\ UNCHANGED inbox
        /\ UNCHANGED <<logVars, reading, listener, resyncs>>

-----------------------------------------------------------------------------
(* A process hears *)

(* deliverLog, up to its first await.                                      *)
DeliverLog(p, seq, own) ==
    LET from == mark[p]
        upTo == IF own THEN seq - 1 ELSE seq
        read(after, to, sets) ==
            due' = [due EXCEPT ![p] = @ \cup {[after |-> after, upTo |-> to, sets |-> sets]}]
    IN  \/ /\ Members(p) = {}
           /\ mark' = [mark EXCEPT ![p] = Larger(IF @ = NoMark THEN 0 ELSE @, seq)]
           /\ UNCHANGED due
        \/ /\ Members(p) # {} /\ from = NoMark
           /\ mark' = [mark EXCEPT ![p] = seq]
           /\ IF own THEN UNCHANGED due ELSE read(seq - 1, seq, NoMark)
        \/ /\ Members(p) # {} /\ from # NoMark
           /\ IF upTo > from
              THEN /\ read(from, upTo, Larger(from, seq))
                   /\ UNCHANGED mark
              ELSE /\ mark' = [mark EXCEPT ![p] = Larger(from, seq)]
                   /\ UNCHANGED due

Receive(p) ==
    /\ listener[p] = "hearing" /\ inbox[p] # <<>>
    /\ inbox' = [inbox EXCEPT ![p] = Tail(@)]
    /\ LET notice == Head(inbox[p]) IN
       \/ /\ notice.kind = "log"
          /\ DeliverLog(p, notice.seq, notice.from = p)
          /\ UNCHANGED page
       \/ /\ notice.kind = "truncated"
          /\ IF notice.from = p THEN UNCHANGED page ELSE Cross(Members(p), notice.seq)
          /\ UNCHANGED <<mark, due>>
    /\ UNCHANGED <<logVars, post, reading, listener, resyncs, faults>>

(* The rows arrive and go out to the sockets.  The caller's watermark was  *)
(* computed before the read.                                               *)
Deliver(p) ==
    \E d \in due[p] :
        /\ NoneReplaying(p)
        /\ page' = Sent(Members(p), {q \in rows : d.after < q /\ q <= d.upTo})
        /\ due' = [due EXCEPT ![p] = @ \ {d}]
        /\ mark' = [mark EXCEPT ![p] = IF d.sets = NoMark THEN @ ELSE d.sets]
        /\ UNCHANGED <<logVars, post, reading, busVars, faults>>

-----------------------------------------------------------------------------
(* The listener *)

(* The first connection of a process catches nobody up; a later one does.  *)
Connect(p) ==
    /\ listener[p] # "hearing"
    /\ listener' = [listener EXCEPT ![p] = "hearing"]
    /\ resyncs' = [resyncs EXCEPT ![p] = @ \/ listener[p] = "deaf"]
    /\ UNCHANGED <<logVars, pageVars, hubVars, inbox, faults>>

(* Mutant for RelayTypeOK: the head is taken for the first free position.  *)
ResyncPastHead(p) ==
    /\ resyncs[p] /\ Members(p) # {}
    /\ resyncs' = [resyncs EXCEPT ![p] = FALSE]
    /\ mark' = [mark EXCEPT ![p] = Last + 1]
    /\ UNCHANGED <<logVars, pageVars, due, reading, listener, inbox, faults>>

(* Mutant for DeafCatchUp: the mark catches up, the sockets do not.        *)
ResyncMarkOnly(p) ==
    /\ resyncs[p]
    /\ resyncs' = [resyncs EXCEPT ![p] = FALSE]
    /\ mark' = [mark EXCEPT ![p] = IF Members(p) = {} THEN @ ELSE Larger(@, Last)]
    /\ UNCHANGED <<logVars, pageVars, due, reading, listener, inbox, faults>>

Resync(p) ==
    /\ resyncs[p]
    /\ resyncs' = [resyncs EXCEPT ![p] = FALSE]
    /\ IF Members(p) = {} THEN UNCHANGED <<mark, due>>
       ELSE IF mark[p] # NoMark /\ Last > mark[p]
            THEN /\ due' = [due EXCEPT ![p] = @ \cup
                              {[after |-> mark[p], upTo |-> Last, sets |-> Last]}]
                 /\ UNCHANGED mark
            ELSE /\ mark' = [mark EXCEPT ![p] = Larger(IF @ = NoMark THEN 0 ELSE @, Last)]
                 /\ UNCHANGED due
    /\ UNCHANGED <<logVars, pageVars, reading, listener, inbox, faults>>

(* The connection drops; what was under way to it is lost.                 *)
LoseListener(p) ==
    /\ listener[p] = "hearing" /\ Fault
    /\ listener' = [listener EXCEPT ![p] = "deaf"]
    /\ inbox' = [inbox EXCEPT ![p] = <<>>]
    /\ UNCHANGED <<logVars, pageVars, hubVars, resyncs>>

(* The process dies and comes back with nothing in memory.                 *)
Crash(p) ==
    /\ listener[p] = "hearing" /\ Fault
    /\ page' = [c \in Conns |-> IF c \in Members(p) THEN Ended(page[c], "gone")
                                ELSE page[c]]
    /\ post' = [c \in Conns |-> IF page[c].at = p THEN 0 ELSE post[c]]
    /\ mark' = [mark EXCEPT ![p] = NoMark]
    /\ reading' = [reading EXCEPT ![p] = FALSE]
    /\ due' = [due EXCEPT ![p] = {}]
    /\ inbox' = [inbox EXCEPT ![p] = <<>>]
    /\ listener' = [listener EXCEPT ![p] = "boot"]
    /\ resyncs' = [resyncs EXCEPT ![p] = FALSE]
    /\ UNCHANGED logVars

-----------------------------------------------------------------------------
(* A checkpoint *)

LastSeen(c) == Max({page[c].base} \cup page[c].got)
Holds(c, q) == q <= page[c].base \/ q \in page[c].got

(* A page saves a checkpoint: the rows up to the last position it has seen *)
(* go, and everybody else is told to start over from its bytes.            *)
Checkpoint(c) ==
    LET upTo == LastSeen(c)
        p == page[c].at
        notice == [kind |-> "truncated", seq |-> upTo, from |-> p]
    IN  /\ page[c].pc = "live" /\ post[c] = 0
        /\ trims < MaxTrims /\ upTo > trim
        /\ GappySaves \/ \A q \in rows : q <= upTo => Holds(c, q)
        /\ trims' = trims + 1
        /\ trim' = upTo
        /\ rows' = {q \in rows : q > upTo}
        /\ stored' = {q \in 1..Last : Holds(c, q)
                        /\ (q <= page[c].base => q \in stored)}
        /\ SplitHello \/ \A d \in Conns : page[d].pc # "welcomed"
        /\ LateNews \/ ~Behind(p)
        /\ Cross(Members(p) \ {c}, upTo)
        /\ \/ inbox' = Heard(notice) /\ UNCHANGED faults
           \/ Fault /\ UNCHANGED inbox
        /\ UNCHANGED <<author, post, hubVars, listener, resyncs>>

-----------------------------------------------------------------------------
Next ==
    \/ \E c \in Conns :
         \/ \E p \in Procs : Join(c, p)
         \/ Hello(c) \/ Replay(c) \/ Leave(c)
         \/ Draw(c) \/ InsertRow(c) \/ Broadcast(c) \/ Checkpoint(c)
    \/ \E p \in Procs :
         \/ Baseline(p) \/ Receive(p) \/ Deliver(p)
         \/ Connect(p) \/ Resync(p) \/ LoseListener(p) \/ Crash(p)

(* What a process has begun it finishes: queries are answered, reconnects  *)
(* are retried without end.                                                *)
Relaying ==
    /\ \A c \in Conns : WF_vars(Replay(c))
    /\ \A p \in Procs :
         /\ WF_vars(Baseline(p)) /\ WF_vars(Receive(p)) /\ WF_vars(Deliver(p))
         /\ WF_vars(Connect(p)) /\ WF_vars(Resync(p))

Spec == Init /\ [][Next]_vars /\ Relaying

-----------------------------------------------------------------------------
(* Properties *)

(* What a process's watermark has passed, its live pages hold, or a read   *)
(* that will send it is under way: nothing is stepped over for good        *)
(* (collabhub.ts broadcast, deliverLog and resync).                        *)
NothingSteppedOver ==
    \A c \in Conns, q \in rows :
        page[c].pc = "live" /\ q <= mark[page[c].at] /\ author[q] # c =>
            \/ Holds(c, q)
            \/ \E d \in due[page[c].at] : d.after < q /\ q <= d.upTo

(* The bytes a checkpoint stores contain every frame its trim removes      *)
(* (barrier.ts: every frame with seq <= S must be represented).            *)
TrimmedIsStored == \A q \in 1..trim : q \in rows \/ q \in stored

(* Whatever is lost, reordered or read twice between processes, a page     *)
(* takes every sender's frames in order and without a hole, or starts over *)
(* (acceptFrame under the relay's faults).                                 *)
Log == INSTANCE OrderedLog WITH
    Readers <- Conns,
    view <- [c \in Conns |-> IF page[c].pc = "live"
                             THEN {q \in DOMAIN author : Holds(c, q)} ELSE {}]
InOrderOrAnew == Log!Spec

(* A process that was deaf to the bus brings its pages up to what was      *)
(* logged meanwhile once it hears again, without another notice (resync).  *)
DeafCatchUp ==
    \A p \in Procs, c \in Conns, q \in Positions :
        (/\ listener[p] = "deaf" /\ q \in rows /\ q > mark[p] /\ author[q] # c
         /\ page[c].pc = "live" /\ page[c].at = p)
            ~> (page[c].pc # "live" \/ Holds(c, q) \/ q \notin rows)
=============================================================================
