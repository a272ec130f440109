----------------------------- MODULE RodneyClient -----------------------------
(***************************************************************************)
(* RodneyClientLib (.lib/rodney_client.c): queries to an external service  *)
(* over a line that the external request daemon (ERQ) of the driver holds. *)
(*                                                                         *)
(* A query waits in `queue` until all of it is sent, in pieces of bounded  *)
(* size of which the first carries a header with the length and the        *)
(* checksum.  The answers come back as packets, cut as the network likes,  *)
(* are put together in `incoming` and handed to the callback filed under   *)
(* their transaction id.                                                   *)
(*                                                                         *)
(* A query is known here by its number; its text is Size characters, and   *)
(* the header counts for one.  An answer is two halves of a header and a   *)
(* body.  The ERQ answers its requests in order; what it does and the      *)
(* service are external.                                                   *)
(***************************************************************************)
EXTENDS Integers, Sequences, SequencesExt

CONSTANTS Size,       \* characters of a query
          FirstMax,   \* characters that fit beside a header
          NextMax,    \* characters that fit without one
          MaxQueries, \* bound on the queries
          MaxLines,   \* bound on the lines that are opened
          MaxTime     \* bound on the clock

ASSUME SizesAreNumbers ==
  \* a query is JSON, never empty, and a header leaves room for some of it
  Size \in Nat \ {0} /\ FirstMax \in Nat \ {0} /\ NextMax \in Nat

VARIABLES erq_ticket,  \* the line in use, or 0
          sending,     \* characters in the last piece
          queue,       \* queries, each with its cursor
          incoming,    \* the answer that is put together
          callbacks,   \* transaction id -> the query whose callback it is
          last_transaction_id,
          flushing,    \* a call_out of flush_queue() is pending
          utime,       \* the clock
          requests,    \* to the ERQ, unanswered
          lines,       \* line -> what is on it
          asked,       \* for the properties: number of queries made
          received,    \* for the properties: queries the service got whole
          applied,     \* for the properties: <<callback, answer>> pairs
          overlapped,  \* for the properties: two requests were under way at once
          cut          \* for the properties: a header was sent in part

rodneyVars == <<erq_ticket, sending, queue, incoming, callbacks, last_transaction_id,
          flushing, utime, requests, lines, asked, received, applied,
          overlapped, cut>>

Idle == [of |-> 0, have |-> 0]

\* What can never match its checksum any more.
Garbled == [of |-> 0, have |-> 1]

Line == [open |-> TRUE, frame |-> Idle, back |-> <<>>]
-----------------------------------------------------------------------------
(* Sending.                                                                *)

\* A request joins those that wait for the ERQ.
Requested(waiting, r) ==
  /\ requests' = Append(waiting, r)
  /\ overlapped' = (overlapped \/ waiting # <<>>)

\* The piece that flush_queue() sends of a query: characters from..to, and how
\* far it moves the cursor once it is sent.
Piece(out) ==
  LET room == IF out.cursor < 0 THEN FirstMax ELSE NextMax
      move == IF out.cursor + room > Size THEN Size - out.cursor ELSE room
  IN  [header |-> out.cursor < 0, from |-> out.cursor + 1,
       to |-> IF out.cursor + move < Size THEN out.cursor + move ELSE Size - 1,
       move |-> move]

\* flush_queue(): that a piece is under way already is logged and nothing more.
flush_queue(waiting, ticket, q, pending, sent) ==
  IF pending \/ ticket = 0 \/ q = <<>>
    THEN requests' = waiting /\ sending' = sent /\ UNCHANGED overlapped
    ELSE LET piece == Piece(Head(q))
         IN  /\ Requested(waiting, [kind |-> "send", ticket |-> ticket,
                                    of |-> Head(q).of, tid |-> Head(q).tid,
                                    piece |-> piece])
             /\ sending' = piece.move

\* Fault: queries made within one tick of the clock get the same id.
get_transaction_id_of_time ==
  <<utime, 0>>

get_transaction_id ==
  IF utime = last_transaction_id[1]
    THEN <<utime, last_transaction_id[2] + 1>> ELSE <<utime, 0>>

Filed(tid, query) ==
  [t \in DOMAIN callbacks \cup {tid} |-> IF t = tid THEN query ELSE callbacks[t]]

\* rodney_query(): without a ticket a line is opened, once more each time.
rodney_query ==
  LET tid == get_transaction_id
      open == [kind |-> "open"]
      q == Append(queue, [of |-> asked + 1, tid |-> tid, cursor |-> -1])
  IN  /\ asked < MaxQueries
      /\ asked' = asked + 1
      /\ last_transaction_id' = tid
      /\ callbacks' = Filed(tid, asked + 1)
      /\ queue' = q
      /\ IF erq_ticket = 0
           THEN Requested(requests, open) /\ UNCHANGED sending
           ELSE flush_queue(requests, erq_ticket, q, flushing, sending)
      /\ UNCHANGED <<erq_ticket, incoming, flushing, utime, lines, received,
                     applied, cut>>

\* The call_out that a blocked line leads to.
call_out ==
  /\ flushing
  /\ flushing' = FALSE
  /\ flush_queue(requests, erq_ticket, queue, FALSE, sending)
  /\ UNCHANGED <<erq_ticket, queue, incoming, callbacks, last_transaction_id,
                 utime, lines, asked, received, applied, cut>>
-----------------------------------------------------------------------------
(* The ERQ and the service (external): what a piece does to a line.        *)

\* The service takes a header at the end of a query and then Size characters,
\* and answers; after anything else it can make no sense of the line.
AnswerOf(of, tid) == [part \in 1..3 |-> [of |-> of, tid |-> tid, part |-> part]]

Written(line, r, header, count) ==
  LET start == IF header /\ line.frame = Idle THEN [of |-> r.of, have |-> 0]
                 ELSE IF header THEN Garbled ELSE line.frame
      fits == start.of = r.of /\ start.have = r.piece.from
  IN  IF ~fits THEN [line EXCEPT !.frame = Garbled]
        ELSE IF start.have + count < Size
          THEN [line EXCEPT !.frame = [of |-> r.of, have |-> start.have + count]]
          ELSE [line EXCEPT !.frame = Idle, !.back = @ \o AnswerOf(r.of, r.tid)]

Got(line, r, count) ==
  line.frame # Garbled /\ r.piece.from + count = Size
     /\ Written(line, r, r.piece.header, count).frame = Idle

Write(r, count) ==
  LET line == lines[r.ticket]
  IN  /\ lines' = [lines EXCEPT ![r.ticket] = Written(line, r, r.piece.header, count)]
      /\ received' = IF Got(line, r, count) THEN Append(received, r.of) ELSE received

Unwritten == UNCHANGED <<lines, received>>

Length(r) == r.piece.to - r.piece.from + 1
-----------------------------------------------------------------------------
(* Callbacks of the ERQ.                                                   *)

\* open_callback() with ERQ_OK and with an error.
opened ==
  /\ requests # <<>> /\ Head(requests).kind = "open"
  /\ Len(lines) < MaxLines
  /\ lines' = Append(lines, Line)
  /\ erq_ticket' = Len(lines) + 1
  /\ flush_queue(Tail(requests), Len(lines) + 1, queue, flushing, sending)
  /\ UNCHANGED <<queue, incoming, callbacks, last_transaction_id, flushing,
                 utime, asked, received, applied, cut>>

not_opened ==
  /\ requests # <<>> /\ Head(requests).kind = "open"
  /\ requests' = Tail(requests)
  /\ UNCHANGED <<erq_ticket, sending, queue, incoming, callbacks,
                 last_transaction_id, flushing, utime, lines, asked, received,
                 applied, overlapped, cut>>

\* Fault: a query is dropped as soon as its first piece is sent.
send_done_early(cursor) ==
  LET out == [Head(queue) EXCEPT !.cursor = cursor]
      q == IF cursor >= 0 THEN Tail(queue) ELSE <<out>> \o Tail(queue)
  IN  /\ queue' = q
      /\ flush_queue(Tail(requests), erq_ticket, q, flushing, 0)

\* The end of send_callback(): the cursor is where it should be, a query that
\* is sent to its end leaves the queue, and the next piece is sent.
send_done(cursor) ==
  LET out == [Head(queue) EXCEPT !.cursor = cursor]
      q == IF cursor >= Size - 1 THEN Tail(queue) ELSE <<out>> \o Tail(queue)
  IN  /\ queue' = q
      /\ flush_queue(Tail(requests), erq_ticket, q, flushing, 0)

\* send_callback() when the queue has vanished.
vanished ==
  queue = <<>> /\ requests' = Tail(requests) /\ UNCHANGED <<queue, sending, overlapped>>

Answered == requests # <<>> /\ Head(requests).kind = "send"

Alive == lines[Head(requests).ticket].open

sent_ok ==
  /\ Answered /\ Alive
  /\ Write(Head(requests), Length(Head(requests)))
  /\ vanished \/ (queue # <<>> /\ send_done(Head(queue).cursor + sending))
  /\ UNCHANGED <<erq_ticket, incoming, callbacks, last_transaction_id,
                 flushing, utime, asked, applied, cut>>

\* ERQ_E_WOULDBLOCK: nothing is written, and flush_queue() is called later.
would_block ==
  /\ Answered /\ Alive
  /\ Unwritten
  /\ requests' = Tail(requests)
  /\ IF queue = <<>> THEN UNCHANGED <<flushing, sending>>
       ELSE flushing' = TRUE /\ sending' = 0
  /\ UNCHANGED <<erq_ticket, queue, incoming, callbacks, last_transaction_id,
                 utime, asked, applied, overlapped, cut>>

\* ERQ_E_INCOMPLETE: a part is written, and the cursor moves by its length,
\* that of the header included.
incomplete ==
  /\ Answered /\ Alive
  /\ LET r == Head(requests)
         head == IF r.piece.header THEN 1 ELSE 0
     IN  \E n \in 1..(Length(r) + head - 1) :
           /\ Write(r, n - head)
           /\ cut' = (cut \/ r.piece.header)
           /\ vanished \/ (queue # <<>> /\ send_done(Head(queue).cursor + n))
  /\ UNCHANGED <<erq_ticket, incoming, callbacks, last_transaction_id,
                 flushing, utime, asked, applied>>

\* ERQ_E_TICKET: the line is gone, the query is sent again on another.
bad_ticket ==
  /\ Answered /\ ~Alive
  /\ Unwritten
  /\ \/ vanished
     \/ /\ queue # <<>>
        /\ queue' = [queue EXCEPT ![1].cursor = -1]
        /\ Requested(Tail(requests), [kind |-> "open"])
        /\ UNCHANGED sending
  /\ UNCHANGED <<erq_ticket, incoming, callbacks, last_transaction_id,
                 flushing, utime, asked, applied, cut>>

\* ERQ_E_PIPE and other errors: the same piece is sent again at once.
send_failed ==
  /\ Answered
  /\ Unwritten
  /\ vanished \/ (queue # <<>> /\ send_done(Head(queue).cursor))
  /\ UNCHANGED <<erq_ticket, incoming, callbacks, last_transaction_id,
                 flushing, utime, asked, applied, cut>>
-----------------------------------------------------------------------------
(* Receiving.                                                              *)

\* What `incoming` is after a packet: header and body of one answer in order,
\* or else it never matches its checksum, and is never started over.
PutTogether(packet) ==
  LET n == Len(packet)
      starts == incoming = Idle /\ n >= 2 /\ packet[1].part = 1
      goes_on == incoming.of = packet[1].of /\ incoming.have + 1 = packet[1].part
  IN  IF (starts \/ goes_on) /\ n < 4 /\ \A i \in 1..n : packet[i].of = packet[1].of
        THEN [of |-> packet[1].of, have |-> incoming.have + n] ELSE Garbled

\* handle_response(): an error, and nothing more, if no callback is filed.
handle_response(u) ==
  /\ applied' = IF u.tid \in DOMAIN callbacks
                  THEN Append(applied, <<callbacks[u.tid], u.of>>) ELSE applied
  /\ callbacks' = [t \in DOMAIN callbacks \ {u.tid} |-> callbacks[t]]

\* open_callback() with ERQ_STDOUT.
packet(c) ==
  /\ \E n \in 1..4 :
       /\ n <= Len(lines[c].back)
       /\ LET p == SubSeq(lines[c].back, 1, n)
              now == PutTogether(p)
          IN  /\ lines' = [lines EXCEPT ![c].back = SubSeq(@, n + 1, Len(@))]
              /\ incoming' = IF now.have = 3 THEN Idle ELSE now
              /\ IF now.have = 3 THEN handle_response(p[1])
                   ELSE UNCHANGED <<callbacks, applied>>
  /\ UNCHANGED <<erq_ticket, sending, queue, last_transaction_id, flushing,
                 utime, requests, asked, received, overlapped, cut>>

\* The service or the network ends a line.
Hangup(c) ==
  /\ lines[c].open
  /\ lines' = [lines EXCEPT ![c] = [Line EXCEPT !.open = FALSE]]
  /\ UNCHANGED <<erq_ticket, sending, queue, incoming, callbacks,
                 last_transaction_id, flushing, utime, requests, asked,
                 received, applied, overlapped, cut>>

Tick ==
  /\ utime < MaxTime
  /\ utime' = utime + 1
  /\ UNCHANGED <<erq_ticket, sending, queue, incoming, callbacks,
                 last_transaction_id, flushing, requests, lines, asked,
                 received, applied, overlapped, cut>>

\* create()
RodneyInit ==
  /\ erq_ticket = 0 /\ sending = 0 /\ queue = <<>> /\ incoming = Idle
  /\ callbacks = [t \in {} |-> 0] /\ last_transaction_id = <<0, 0>>
  /\ flushing = FALSE /\ utime = 1 /\ requests = <<>> /\ lines = <<>>
  /\ asked = 0 /\ received = <<>> /\ applied = <<>>
  /\ overlapped = FALSE /\ cut = FALSE

RodneyNext ==
  \/ rodney_query \/ call_out
  \/ opened \/ not_opened
  \/ sent_ok \/ would_block \/ incomplete \/ bad_ticket \/ send_failed
  \/ \E c \in DOMAIN lines : packet(c) \/ Hangup(c)
  \/ Tick

RodneySpec == RodneyInit /\ [][RodneyNext]_rodneyVars
-----------------------------------------------------------------------------
\* A callback is applied to the answer of its own query, and once: however
\* often a query is sent and answered, and whatever the clock says.
AnswersReachAskers ==
  /\ \A i \in DOMAIN applied : applied[i][1] = applied[i][2]
  /\ \A i, j \in DOMAIN applied : applied[i][1] = applied[j][1] => i = j

\* As long as there is one request to the ERQ at a time and no header is cut,
\* the service gets the queries whole, once and in their order, over blocked
\* and lost lines: those that left the queue, and no other.
QueriesArriveInOrder ==
  LET gone == asked - Len(queue)
  IN  ~overlapped /\ ~cut =>
        /\ Len(received) = gone
        /\ \A i \in DOMAIN received : received[i] = i

\* What the documentation of flush_queue() promises: one piece at a time is
\* under way to the ERQ.  flush_queue() tests for it and goes on all the same.
OnePieceAtATime ==
  \A i, j \in DOMAIN requests :
    requests[i].kind = "send" /\ requests[j].kind = "send" => i = j
=============================================================================
