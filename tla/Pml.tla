--------------------------------- MODULE Pml ---------------------------------
(* The point-to-point layer ob1 below Open MPI's collectives: how messages *)
(* are numbered, put back into order and matched with receives.            *)
(*                                                                         *)
(* A message of rank s to rank d starts with one fragment that carries a   *)
(* 16-bit sequence number of the pair (s, d).  The fragments of a pair may *)
(* travel over several interfaces and overtake each other; d hands them to *)
(* matching in the order of their numbers and keeps the early ones aside.  *)
(* A short message is complete with its first fragment.  A synchronous one *)
(* completes at the sender when its match is acknowledged, and a long one  *)
(* sends its data when that acknowledgement comes.                         *)
(*                                                                         *)
(* A process runs in one thread: it handles what arrives in the progress   *)
(* loop of a blocking call, and nothing else meanwhile.                    *)
EXTENDS Integers, Sequences, FiniteSets, SequencesExt

CONSTANTS
    Procs,       \* the ranks of the communicator
    SeqModulus   \* sequence numbers are kept modulo this (2^16)

ASSUME ProcsAssumption == Procs \subseteq Nat
ASSUME SeqAssumption == SeqModulus \in Nat \ {0}

ANY_SOURCE == -1
ANY_TAG == -1
Nobody == -1

VARIABLES
    send_sequence,      \* [r][d]: fragments r has numbered for d
    net,                \* first fragments in flight
    expected_sequence,  \* [r][s]: the number r expects next from s
    frags_cant_match,   \* [r][s]: fragments from s that came too early
    matching,           \* [r]: the source whose early fragments r goes through
    handed,             \* [r][s]: fragments from s handed to matching (history)
    recv_sequence,      \* [r]: receives r has posted
    specific_receives,  \* [r][s]: posted receives from s, unmatched
    wild_receives,      \* [r]: posted receives from any source, unmatched
    unexpected_frags,   \* [r][s]: fragments in order, without a receive
    last_probed,        \* [r]: where the last search for any source ended
    ctl,                \* acknowledgements and data fragments in flight
    pending,            \* [r]: requests that are not complete
    buf                 \* [r]: the user's buffer

orderVars == <<send_sequence, net, expected_sequence, frags_cant_match,
               matching, handed>>
queueVars == <<recv_sequence, specific_receives, wild_receives,
               unexpected_frags, last_probed>>
pmlVars == <<orderVars, queueVars, ctl, pending, buf>>

PerPeer(x) == [r \in Procs |-> [s \in Procs |-> x]]

PmlInit ==
    /\ send_sequence = PerPeer(0)
    /\ net = {}
    /\ expected_sequence = PerPeer(1 % SeqModulus)
    /\ frags_cant_match = PerPeer(<<>>)
    /\ matching = [r \in Procs |-> Nobody]
    /\ handed = PerPeer(0)
    /\ recv_sequence = [r \in Procs |-> 0]
    /\ specific_receives = PerPeer(<<>>)
    /\ wild_receives = [r \in Procs |-> <<>>]
    /\ unexpected_frags = PerPeer(<<>>)
    /\ last_probed = [r \in Procs |-> 0]
    /\ ctl = {}
    /\ pending = [r \in Procs |-> {}]

Elements(seq) == {seq[i] : i \in DOMAIN seq}
Without(seq, x) == SelectSeq(seq, LAMBDA y : y # x)

-----------------------------------------------------------------------------
(* Sending.  A send is [dst, tag, from, sync, req]: from lists the places  *)
(* of the buffer that hold the data, req names the request.                *)

(* What the first fragment is: all of a short message; all of it, to be    *)
(* acknowledged; or the announcement of a long one.                        *)
FragType(s, long) ==
    IF long /\ s.from # <<>> THEN "rndv_long"
    ELSE IF s.sync THEN "rndv" ELSE "match"

Gather(b, from) == [i \in 1 .. Len(from) |-> b[from[i]]]

(* Mutant: the number is not cut to the width of its field.                *)
Frag_Mutant(r, s, long, b) ==
    [src |-> r, dst |-> s.dst, tag |-> s.tag,
     nr |-> send_sequence[r][s.dst] + 1, seq |-> send_sequence[r][s.dst] + 1,
     type |-> FragType(s, long), req |-> s.req, from |-> s.from,
     data |-> IF FragType(s, long) = "rndv_long" THEN <<>> ELSE Gather(b, s.from)]

Frag(r, s, long, b) ==
    [src |-> r, dst |-> s.dst, tag |-> s.tag,
     nr |-> send_sequence[r][s.dst] + 1,
     seq |-> (send_sequence[r][s.dst] + 1) % SeqModulus,
     type |-> FragType(s, long), req |-> s.req, from |-> s.from,
     data |-> IF FragType(s, long) = "rndv_long" THEN <<>> ELSE Gather(b, s.from)]

(* mca_pml_ob1_isend for each of the sends, which have different           *)
(* destinations; b is the buffer they are taken from.                      *)
Isend(r, sends, long, b) ==
    /\ send_sequence' =
          [send_sequence EXCEPT ![r] =
              [d \in Procs |-> IF \E s \in sends : s.dst = d
                               THEN @[d] + 1 ELSE @[d]]]
    /\ net' = net \cup {Frag(r, s, long, b) : s \in sends}

(* A send that is acknowledged is pending until then; a short standard one *)
(* is complete when isend returns.                                         *)
SendsPending(sends, long) ==
    {s.req : s \in {x \in sends : FragType(x, long) # "match"}}

-----------------------------------------------------------------------------
(* Matching.  A receive is [src, tag, at, req], and a posted one also has  *)
(* the sequence number of its posting.                                     *)

TagMatches(wanted, tag) == wanted = tag \/ (wanted = ANY_TAG /\ tag >= 0)

Unpack(b, at, data) ==
    [p \in DOMAIN b |->
        IF \E i \in 1 .. Len(data) : i <= Len(at) /\ at[i] = p
        THEN data[CHOOSE i \in 1 .. Len(data) : i <= Len(at) /\ at[i] = p]
        ELSE b[p]]

(* The receive is complete with the data of the first fragment, unless     *)
(* that one only announces them.                                           *)
Completed(q, f) == IF f.type = "rndv_long" THEN {} ELSE {q.req}

Acks(q, f) ==
    IF f.type = "match" THEN {}
    ELSE {[type |-> "ack", to |-> f.src, req |-> f.req, from |-> f.from,
           long |-> f.type = "rndv_long",
           peer |-> f.dst, peer_req |-> q.req, at |-> q.at]}

(* match_incomming: of the posted receives that fit, specific and wild,    *)
(* the one posted first.                                                   *)
Candidates(r, f) ==
    {q \in Elements(specific_receives[r][f.src]) \cup Elements(wild_receives[r]) :
        TagMatches(q.tag, f.tag)}

match_incomming(r, f) ==
    CHOOSE q \in Candidates(r, f) :
        \A p \in Candidates(r, f) : q.sequence <= p.sequence

(* match_one: the fragment goes to a receive, or waits for one.            *)
match_one(r, f) ==
    LET q == match_incomming(r, f)
    IN  /\ UNCHANGED <<recv_sequence, last_probed>>
        /\ \/ /\ Candidates(r, f) # {}
              /\ specific_receives' =
                    [specific_receives EXCEPT ![r][f.src] = Without(@, q)]
              /\ wild_receives' = [wild_receives EXCEPT ![r] = Without(@, q)]
              /\ buf' = [buf EXCEPT ![r] = Unpack(@, q.at, f.data)]
              /\ pending' = [pending EXCEPT ![r] = @ \ Completed(q, f)]
              /\ ctl' = ctl \cup Acks(q, f)
              /\ UNCHANGED unexpected_frags
           \/ /\ Candidates(r, f) = {}
              /\ unexpected_frags' =
                    [unexpected_frags EXCEPT ![r][f.src] = Append(@, f)]
              /\ UNCHANGED <<specific_receives, wild_receives, buf, pending, ctl>>

(* The fragment has the expected number: the next one is expected now.     *)
Hand(r, f) ==
    /\ expected_sequence' =
          [expected_sequence EXCEPT ![r][f.src] = (@ + 1) % SeqModulus]
    /\ handed' = [handed EXCEPT ![r][f.src] = @ + 1]
    /\ match_one(r, f)

(* Mutant: a fragment is matched whatever its number.                      *)
Arrive_Mutant(r, f) ==
    /\ f \in net /\ f.dst = r
    /\ matching[r] = Nobody
    /\ net' = net \ {f}
    /\ Hand(r, f)
    /\ UNCHANGED <<send_sequence, matching, frags_cant_match>>

(* Mutant: the early fragments are not looked at after an expected one.    *)
ArriveOnly_Mutant(r, f) ==
    /\ f \in net /\ f.dst = r
    /\ matching[r] = Nobody
    /\ net' = net \ {f}
    /\ UNCHANGED <<send_sequence, matching>>
    /\ \/ /\ f.seq = expected_sequence[r][f.src]
          /\ Hand(r, f)
          /\ UNCHANGED frags_cant_match
       \/ /\ f.seq # expected_sequence[r][f.src]
          /\ frags_cant_match' =
                [frags_cant_match EXCEPT ![r][f.src] = Append(@, f)]
          /\ UNCHANGED <<expected_sequence, handed, queueVars, ctl, pending, buf>>

(* A first fragment arrives (recv_frag_callback_match, _rndv).  With the   *)
(* expected number it is matched, and early ones may follow; with another  *)
(* one it is kept.                                                         *)
Arrive(r, f) ==
    /\ f \in net /\ f.dst = r
    /\ matching[r] = Nobody
    /\ net' = net \ {f}
    /\ UNCHANGED send_sequence
    /\ \/ /\ f.seq = expected_sequence[r][f.src]
          /\ Hand(r, f)
          /\ matching' = [matching EXCEPT ![r] =
                IF frags_cant_match[r][f.src] = <<>> THEN Nobody ELSE f.src]
          /\ UNCHANGED frags_cant_match
       \/ /\ f.seq # expected_sequence[r][f.src]
          /\ frags_cant_match' =
                [frags_cant_match EXCEPT ![r][f.src] = Append(@, f)]
          /\ UNCHANGED <<expected_sequence, handed, matching, queueVars,
                         ctl, pending, buf>>

(* check_cantmatch_for_match: the places of the early fragments whose turn *)
(* it is, of which the first one counts.                                   *)
Ready(r, s) ==
    {i \in 1 .. Len(frags_cant_match[r][s]) :
        frags_cant_match[r][s][i].seq = expected_sequence[r][s]}

(* One round of out_of_order_match: an early fragment is matched, or none  *)
(* has the expected number and the loop ends.                              *)
MatchEarly(r) ==
    /\ matching[r] # Nobody
    /\ UNCHANGED <<send_sequence, net>>
    /\ LET s == matching[r]
           first == CHOOSE i \in Ready(r, s) : \A j \in Ready(r, s) : i <= j
           rest == RemoveAt(frags_cant_match[r][s], first)
       IN  \/ /\ Ready(r, s) # {}
              /\ frags_cant_match' = [frags_cant_match EXCEPT ![r][s] = rest]
              /\ Hand(r, frags_cant_match[r][s][first])
              /\ matching' = [matching EXCEPT ![r] =
                                 IF rest = <<>> THEN Nobody ELSE s]
           \/ /\ Ready(r, s) = {}
              /\ matching' = [matching EXCEPT ![r] = Nobody]
              /\ UNCHANGED <<expected_sequence, frags_cant_match, handed,
                             queueVars, ctl, pending, buf>>

-----------------------------------------------------------------------------
(* Receiving.                                                              *)

(* recv_req_match_specific_proc: the fragments from s that fit, in order.  *)
Fitting(r, s, tag) ==
    SelectSeq(unexpected_frags[r][s], LAMBDA f : TagMatches(tag, f.tag))

(* How far behind last_probed a source is in the round of                  *)
(* recv_req_match_wild.                                                    *)
Distance(r, s) ==
    IF s > last_probed[r] THEN s - last_probed[r] - 1
    ELSE s + Cardinality(Procs)

Sources(r, q) ==
    {s \in Procs : /\ q.src \in {s, ANY_SOURCE}
                   /\ Fitting(r, s, q.tag) # <<>>}

(* The source whose message a receive takes when there are several.        *)
FirstSource(r, q) ==
    CHOOSE s \in Sources(r, q) :
        \A p \in Sources(r, q) : Distance(r, s) <= Distance(r, p)

(* mca_pml_ob1_recv_req_start of at most one receive, followed by the      *)
(* sends: what a rank does between two blocking waits.                     *)
Post(r, recvs, sends, long) ==
    LET found(q) == Fitting(r, FirstSource(r, q), q.tag)[1]
        hits     == {q \in recvs : Sources(r, q) # {}}
        posted(q) == [src |-> q.src, tag |-> q.tag, at |-> q.at, req |-> q.req,
                      sequence |-> recv_sequence[r]]
        b == IF hits = {} THEN buf[r]
             ELSE LET q == CHOOSE x \in hits : TRUE
                  IN  Unpack(buf[r], q.at, found(q).data)
    IN  /\ matching[r] = Nobody
        /\ recv_sequence' = [recv_sequence EXCEPT ![r] = @ + Cardinality(recvs)]
        /\ last_probed' = [last_probed EXCEPT ![r] =
              IF \E q \in hits : q.src = ANY_SOURCE
              THEN FirstSource(r, CHOOSE q \in hits : TRUE) ELSE @]
        /\ unexpected_frags' = [unexpected_frags EXCEPT ![r] =
              [s \in Procs |->
                  IF \E q \in hits : FirstSource(r, q) = s
                  THEN Without(@[s], found(CHOOSE q \in hits : TRUE)) ELSE @[s]]]
        /\ specific_receives' = [specific_receives EXCEPT ![r] =
              [s \in Procs |->
                  IF \E q \in recvs \ hits : q.src = s
                  THEN Append(@[s], posted(CHOOSE q \in recvs : TRUE)) ELSE @[s]]]
        /\ wild_receives' = [wild_receives EXCEPT ![r] =
              IF \E q \in recvs \ hits : q.src = ANY_SOURCE
              THEN Append(@, posted(CHOOSE q \in recvs : TRUE)) ELSE @]
        /\ buf' = [buf EXCEPT ![r] = b]
        /\ ctl' = ctl \cup UNION {Acks(q, found(q)) : q \in hits}
        /\ pending' = [pending EXCEPT ![r] =
              ((@ \cup {q.req : q \in recvs})
                  \ UNION {Completed(q, found(q)) : q \in hits})
                  \cup SendsPending(sends, long)]
        /\ Isend(r, sends, long, b)
        /\ UNCHANGED <<expected_sequence, frags_cant_match, matching, handed>>

(* recv_frag_callback_ack: a synchronous send is complete; a long one now  *)
(* sends its data and is complete too.                                     *)
RecvAck(r, a) ==
    /\ a \in ctl /\ a.type = "ack" /\ a.to = r
    /\ matching[r] = Nobody
    /\ pending' = [pending EXCEPT ![r] = @ \ {a.req}]
    /\ ctl' = (ctl \ {a}) \cup
          (IF a.long
           THEN {[type |-> "frag", to |-> a.peer, req |-> a.peer_req,
                  at |-> a.at, data |-> Gather(buf[r], a.from)]}
           ELSE {})
    /\ UNCHANGED <<orderVars, queueVars, buf>>

(* recv_frag_callback_frag: the data of a long message.                    *)
RecvFrag(r, a) ==
    /\ a \in ctl /\ a.type = "frag" /\ a.to = r
    /\ matching[r] = Nobody
    /\ buf' = [buf EXCEPT ![r] = Unpack(@, a.at, a.data)]
    /\ pending' = [pending EXCEPT ![r] = @ \ {a.req}]
    /\ ctl' = ctl \ {a}
    /\ UNCHANGED <<orderVars, queueVars>>

(* What a rank does in opal_progress, inside a blocking call.              *)
Progress(r) ==
    \/ \E f \in net : Arrive(r, f)
    \/ MatchEarly(r)
    \/ \E a \in ctl : RecvAck(r, a) \/ RecvFrag(r, a)

(* The sends between two waits go to ranks of the communicator, to each at *)
(* most one.                                                               *)
GoodSends(sends) ==
    /\ \A s \in sends : s.dst \in Procs
    /\ \A s, t \in sends : s.dst = t.dst => s = t

(* What the layer does for any program on top of it: progress, posting,    *)
(* and leaving the buffer to the program.                                  *)
PmlNext ==
    \E r \in Procs :
        \/ Progress(r)
        \/ \E recvs, sends, long :
              GoodSends(sends) /\ Post(r, recvs, sends, long)
        \/ UNCHANGED <<orderVars, queueVars, ctl, pending>>

-----------------------------------------------------------------------------
(* The numbers of the fragments from s to r that have not been handed to   *)
(* matching.                                                               *)
Outstanding(s, r) ==
    {f \in net : f.src = s /\ f.dst = r} \cup Elements(frags_cant_match[r][s])

(* No fragment overtakes another one: those that r has not handed to       *)
(* matching are the ones s has numbered last, whatever order the network   *)
(* delivers them in.                                                       *)
InOrder ==
    \A r, s \in Procs :
        {f.nr : f \in Outstanding(s, r)} = handed[r][s] + 1 .. send_sequence[s][r]

(* An early fragment whose turn has come is not left lying: its receiver   *)
(* is just going through the early fragments of that source.               *)
NoneStranded ==
    \A r, s \in Procs :
        Ready(r, s) # {} => matching[r] = s

(* No more than SeqModulus fragments of a pair are ever on their way, which*)
(* is what makes their numbers unambiguous.  The code does not see to it.  *)
Window ==
    \A r, s \in Procs : send_sequence[s][r] - handed[r][s] <= SeqModulus
=============================================================================
