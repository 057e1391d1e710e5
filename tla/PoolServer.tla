----------------------------- MODULE PoolServer -----------------------------
(***************************************************************************)
(* The mining pool a node runs (pool/mod.rs, pool/embedded.rs): the window *)
(* of shares that decides who is paid, and for each connection the thread  *)
(* that reads from the miner and the thread that sends it a job every four *)
(* seconds, both of which replace the connection's template.               *)
(*                                                                         *)
(* A tip is a number, and a later tip a larger one.  A template is known   *)
(* by the tip it was built on, the height read next, and a variant for     *)
(* what the mempool and the share counts put into its merkle root.  A job  *)
(* carries the header of a template; its own timestamp comes back with the *)
(* share, so that a share meets the target of the template it was mined    *)
(* for and of no other.  Each connection subscribes with an address of its *)
(* own; of the connections in Others only the recording of shares is kept. *)
(* Left out: hash rates, statistics and a second subscription.             *)
(***************************************************************************)
EXTENDS Naturals, FiniteSets, Sequences, Functions

CONSTANTS
  Conn,             \* connections; a closed one may be used again
  Others,           \* more connections
  Variants,
  PPLNS_WINDOW,
  Totals,           \* what a block may have to pay, reward and fees together
  MAX_TIPS,         \* bound of the model: how often the tip moves
  MAX_CONNECTS      \* bound of the model: how often a miner connects

ASSUME PoolAssumption ==
  /\ IsFiniteSet(Conn \cup Others) /\ Conn \cap Others = {}
  /\ {"nobody", "pool", "free", "peer"} \cap (Conn \cup Others) = {}
  /\ Variants # {} /\ Totals \subseteq Nat
  /\ PPLNS_WINDOW \in Nat \ {0}
  /\ MAX_TIPS \in Nat /\ MAX_CONNECTS \in Nat

VARIABLES
  tip, height,
  writer,      \* who holds apply_lock, between the writes of tip and height
  serving,     \* the server's running flag
  shares,      \* the window: the address of each share
  share_count,
  recording,   \* who holds the lock of shares, inside record_share
  link,        \* each TCP connection: up or cut
  connects,
  inbox,       \* what a miner has sent, the message being handled first
  outbox,      \* the jobs on their way to a miner
  subscribed,
  template,
  reader,      \* where the thread that reads is
  tmpl,        \* its local template
  ticker,      \* where the thread that sends jobs is
  next_job,    \* its local template
  work,        \* the job a miner's workers grind; << >> before the first
  crossed      \* history: connections whose two threads got in each other's
               \* way, or that had a win refused on the tip it was made for

chain_vars == <<tip, height, writer>>
share_vars == <<shares, share_count, recording>>
link_vars == <<link, connects, inbox, outbox>>
reader_vars == <<reader, tmpl>>
ticker_vars == <<ticker, next_job>>
pool_vars == <<chain_vars, serving, share_vars, link_vars, subscribed, template,
               reader_vars, ticker_vars, work, crossed>>

Template == [prev : 0..MAX_TIPS, height : 1..(MAX_TIPS + 1), variant : Variants]

\* What a thread's local template is while the thread holds none.
NoTemplate ==
  [prev |-> 0, height |-> 1, variant |-> CHOOSE v \in Variants : TRUE]

Subscribe == [type |-> "subscribe"]
Message == {Subscribe} \cup [type : {"share"}, of : Template, block : BOOLEAN]

-----------------------------------------------------------------------------
(* The chain *)

\* A block from elsewhere becomes the tip.
PeerBlock ==
  /\ writer = "free" /\ tip < MAX_TIPS /\ serving
  /\ tip' = tip + 1
  /\ writer' = "peer"
  /\ UNCHANGED <<height, serving, share_vars, link_vars, subscribed, template,
                 reader_vars, ticker_vars, work, crossed>>

\* The height is written after the tip, and apply_lock given back.
Publish ==
  /\ writer # "free"
  /\ height' = tip
  /\ writer' = "free"
  /\ UNCHANGED <<tip, serving, share_vars, link_vars, subscribed, template,
                 reader_vars, ticker_vars, work, crossed>>

\* build_template: the tip, the height, and whatever else goes into it.
Built == [prev : {tip}, height : {height + 1}, variant : Variants]

\* A template whose height was read before the one that goes with its tip.
torn(t) == t.height # t.prev + 1

Saturating(a, b) == IF a > b THEN a - b ELSE 0

\* What the coinbase of a template built now pays to the addresses that decode,
\* by the counts as they are, and to the pool: the rest, since build_template
\* asks for no fee of its own.
payout_outputs(total, decodable) ==
  LET all == SumFunction(share_count)
      amount == [a \in decodable |->
                   IF all = 0 THEN 0 ELSE (total * share_count[a]) \div all]
      pool_cut == Saturating(total, SumFunction(amount))
  IN  [a \in decodable \cup {"pool"} |->
         IF a = "pool" THEN pool_cut ELSE amount[a]]

-----------------------------------------------------------------------------
(* Connections *)

alive(c) == reader[c] # "off"

\* A miner connects and subscribes; handle_client builds a first template, which
\* nothing sends before there is an address, and starts the thread that sends jobs.
Connect(c) ==
  /\ serving /\ ~ alive(c) /\ ticker[c] = "off"
  /\ connects < MAX_CONNECTS
  /\ connects' = connects + 1
  /\ link' = [link EXCEPT ![c] = "up"]
  /\ inbox' = [inbox EXCEPT ![c] = <<Subscribe>>]
  /\ outbox' = [outbox EXCEPT ![c] = << >>]
  /\ \E t \in Built : template' = [template EXCEPT ![c] = t]
  /\ reader' = [reader EXCEPT ![c] = "idle"]
  /\ ticker' = [ticker EXCEPT ![c] = "sleep"]
  /\ work' = [work EXCEPT ![c] = << >>]
  /\ crossed' = crossed \ {c}
  /\ UNCHANGED <<chain_vars, serving, share_vars, subscribed, tmpl, next_job>>

\* The workers take the latest job.
TakeJob(c) ==
  /\ link[c] = "up" /\ outbox[c] # << >>
  /\ work' = [work EXCEPT ![c] = outbox[c]]
  /\ outbox' = [outbox EXCEPT ![c] = << >>]
  /\ UNCHANGED <<chain_vars, serving, share_vars, link, connects, inbox,
                 subscribed, template, reader_vars, ticker_vars, crossed>>

\* They find a share of the job they have, which may be an old one.
FindShare(c, block) ==
  /\ link[c] = "up" /\ inbox[c] = << >> /\ work[c] # << >> /\ serving
  /\ block => work[c][1].prev < MAX_TIPS \/ torn(work[c][1])
  /\ inbox' = [inbox EXCEPT ![c] =
                 <<[type |-> "share", of |-> work[c][1], block |-> block]>>]
  /\ UNCHANGED <<chain_vars, serving, share_vars, link, connects, outbox,
                 subscribed, template, reader_vars, ticker_vars, work,
                 crossed>>

\* The connection breaks, or the miner ends it: its workers end, and the job on
\* its way is lost, while what has come in can still be read.
Lose(c) ==
  /\ link[c] = "up"
  /\ link' = [link EXCEPT ![c] = "cut"]
  /\ outbox' = [outbox EXCEPT ![c] = << >>]
  /\ work' = [work EXCEPT ![c] = << >>]
  /\ UNCHANGED <<chain_vars, serving, share_vars, connects, inbox, subscribed,
                 template, reader_vars, ticker_vars, crossed>>

StopServer ==
  /\ serving
  /\ serving' = FALSE
  /\ UNCHANGED <<chain_vars, share_vars, link_vars, subscribed, template,
                 reader_vars, ticker_vars, work, crossed>>

\* A job goes out, as soon as the stream takes it.
sent(c, t) ==
  /\ link[c] = "up" /\ outbox[c] = << >>
  /\ outbox' = [outbox EXCEPT ![c] = <<t>>]

\* One thread meets the other on its way to replace the template.
meets(c, other_too) ==
  crossed' = IF other_too THEN crossed \cup {c} ELSE crossed

\* template.write(), by either thread; the other may be about to do the same.
replace(c, t, other_too) ==
  /\ template' = [template EXCEPT ![c] = t]
  /\ meets(c, other_too)

-----------------------------------------------------------------------------
(* The thread that reads what the miner sends *)

goto(c, l) == reader' = [reader EXCEPT ![c] = l]

drop(c) == tmpl' = [tmpl EXCEPT ![c] = NoTemplate]

\* The message is done with.
done(c) == goto(c, "idle") /\ drop(c) /\ inbox' = [inbox EXCEPT ![c] = Tail(@)]

share(c) == Head(inbox[c])

\* The reader ends: the server stops (the next line or a silence of 120
\* seconds ends the wait), the connection breaks, or a send fails: that of a job,
\* or what is sent of a share before Win and of a block after it.
EndReader(c) ==
  /\ \/ reader[c] = "idle" /\ ~ serving
     \/ reader[c] = "idle" /\ inbox[c] = << >> /\ link[c] = "cut"
     \/ reader[c] \in {"tell", "offer", "win"} /\ link[c] = "cut"
     \/ reader[c] = "won" /\ writer # c /\ link[c] = "cut"
  /\ goto(c, "off")
  /\ inbox' = [inbox EXCEPT ![c] = << >>]
  /\ subscribed' = subscribed \ {c}
  /\ drop(c)
  /\ link' = [link EXCEPT ![c] = IF ticker[c] = "off" THEN "cut" ELSE @]
  /\ UNCHANGED <<chain_vars, serving, share_vars, connects, outbox, template,
                 ticker_vars, work, crossed>>

\* The address is written, and a template of its own built, written and sent
\* (Renew, Write, Send), while the other thread may already send the first one.
Subscribes(c) ==
  /\ reader[c] = "idle" /\ serving
  /\ inbox[c] # << >> /\ share(c).type = "subscribe"
  /\ subscribed' = subscribed \cup {c}
  /\ goto(c, "greet")
  /\ UNCHANGED <<chain_vars, serving, share_vars, link_vars, template, tmpl,
                 ticker_vars, work, crossed>>

\* A share arrives.  A template the tip has left is rebuilt first, and the
\* share is then checked against the new one.
TakeShare(c) ==
  /\ reader[c] = "idle" /\ serving
  /\ inbox[c] # << >> /\ share(c).type = "share"
  /\ \/ /\ template[c].prev = tip
        /\ tmpl' = [tmpl EXCEPT ![c] = template[c]]
        /\ goto(c, "check")
     \/ /\ template[c].prev # tip
        /\ \E t \in Built : tmpl' = [tmpl EXCEPT ![c] = t]
        /\ goto(c, "fresh")
  /\ UNCHANGED <<chain_vars, serving, share_vars, link_vars, subscribed,
                 template, ticker_vars, work, crossed>>

\* The template built is written: the rebuilt one of a share, the next one of a
\* miner that subscribes or has had a win.
Write(c) ==
  /\ reader[c] \in {"fresh", "renew"}
  /\ replace(c, tmpl[c], ticker[c] = "built")
  /\ goto(c, IF reader[c] = "fresh" THEN "tell" ELSE "offer")
  /\ UNCHANGED <<chain_vars, serving, share_vars, link_vars, subscribed, tmpl,
                 ticker_vars, work>>

\* The miner is sent its job, after which a share is checked, and the message is
\* done with otherwise.
Send(c) ==
  /\ reader[c] \in {"tell", "offer"}
  /\ sent(c, tmpl[c])
  /\ IF reader[c] = "tell" THEN goto(c, "check") /\ UNCHANGED <<inbox, tmpl>>
     ELSE done(c)
  /\ UNCHANGED <<chain_vars, serving, share_vars, link, connects, subscribed,
                 template, ticker_vars, work, crossed>>

check_share(c) == share(c).of = tmpl[c]

Check(c) ==
  /\ reader[c] = "check"
  /\ IF check_share(c) THEN goto(c, "record") /\ UNCHANGED <<inbox, tmpl>>
     ELSE done(c)
  /\ UNCHANGED <<chain_vars, serving, share_vars, link, connects, outbox,
                 subscribed, template, ticker_vars, work, crossed>>

\* Mutant of Begin: the count of the share that is dropped stays.
BeginAlone(a) ==
  /\ recording = "nobody"
  /\ recording' = a
  /\ shares' = Append(IF Len(shares) >= PPLNS_WINDOW THEN Tail(shares)
                      ELSE shares, a)
  /\ UNCHANGED share_count

\* record_share holds the lock of shares to its end; the counts, under a lock
\* of their own, can be read between its two writes to them.
Begin(a) ==
  /\ recording = "nobody"
  /\ recording' = a
  /\ IF Len(shares) >= PPLNS_WINDOW
     THEN /\ shares' = Append(Tail(shares), a)
          /\ share_count' = [share_count EXCEPT ![Head(shares)] = @ - 1]
     ELSE shares' = Append(shares, a) /\ UNCHANGED share_count

\* Mutant of Credit: a new address gets an entry and no share.
CreditNothing(a) ==
  /\ recording = a
  /\ recording' = "nobody"
  /\ UNCHANGED <<shares, share_count>>

Credit(a) ==
  /\ recording = a
  /\ recording' = "nobody"
  /\ share_count' = [share_count EXCEPT ![a] = @ + 1]
  /\ UNCHANGED shares

OtherShare(o) ==
  /\ Begin(o) \/ Credit(o)
  /\ UNCHANGED <<chain_vars, serving, link_vars, subscribed, template,
                 reader_vars, ticker_vars, work, crossed>>

Record(c) ==
  /\ \/ reader[c] = "record" /\ Begin(c) /\ goto(c, "credit")
        /\ UNCHANGED <<inbox, tmpl>>
     \/ /\ reader[c] = "credit" /\ Credit(c)
        /\ IF share(c).block THEN goto(c, "win") /\ UNCHANGED <<inbox, tmpl>>
           ELSE done(c)
  /\ UNCHANGED <<chain_vars, serving, link, connects, outbox, subscribed,
                 template, ticker_vars, work, crossed>>

\* on_block_won, and apply_block under apply_lock with the template's height.  It
\* may be refused on the tip it was built on: for a height of another tip, for
\* payments a peer's block or a reorg has spoiled (the pool takes none out of the
\* mempool), for a time behind the median.  The reader goes on as if it was not.
Win(c) ==
  /\ reader[c] = "win"
  /\ \/ /\ tmpl[c].prev = tip /\ writer = "free"
        /\ tmpl[c].height = height + 1
        /\ tip' = tip + 1 /\ writer' = c
        /\ UNCHANGED crossed
     \/ /\ tmpl[c].prev = tip /\ writer = "free"
        /\ crossed' = crossed \cup {c}
        /\ UNCHANGED <<tip, writer>>
     \/ tmpl[c].prev # tip /\ UNCHANGED <<tip, writer, crossed>>
  /\ goto(c, "won")
  /\ UNCHANGED <<height, serving, share_vars, link_vars, subscribed, template,
                 tmpl, ticker_vars, work>>

\* Won or refused, the miner gets a new template, like one that subscribes.
Renew(c) ==
  /\ reader[c] \in {"greet", "won"} /\ writer # c
  /\ \E t \in Built : tmpl' = [tmpl EXCEPT ![c] = t]
  /\ goto(c, "renew")
  /\ UNCHANGED <<chain_vars, serving, share_vars, link_vars, subscribed,
                 template, ticker_vars, work, crossed>>

-----------------------------------------------------------------------------
(* The thread that sends a job every four seconds *)

after(c, l) == ticker' = [ticker EXCEPT ![c] = l]

EndTicker(c) ==
  /\ \/ ticker[c] = "sleep" /\ (~ alive(c) \/ ~ serving)
     \/ ticker[c] = "send" /\ link[c] = "cut"
  /\ after(c, "off")
  /\ next_job' = [next_job EXCEPT ![c] = NoTemplate]
  /\ link' = [link EXCEPT ![c] = IF alive(c) THEN @ ELSE "cut"]
  /\ UNCHANGED <<chain_vars, serving, share_vars, connects, inbox, outbox,
                 subscribed, template, reader_vars, work, crossed>>

\* Mutant of Wake: the template is taken as it is.
WakeAsItIs(c) ==
  /\ ticker[c] = "sleep" /\ alive(c) /\ serving
  /\ c \in subscribed
  /\ next_job' = [next_job EXCEPT ![c] = template[c]]
  /\ after(c, "send")
  /\ UNCHANGED <<chain_vars, serving, share_vars, link_vars, subscribed,
                 template, reader_vars, work, crossed>>

\* Mutant of Wake: every job comes with a template of its own.
WakeAnew(c) ==
  /\ ticker[c] = "sleep" /\ alive(c) /\ serving
  /\ c \in subscribed
  /\ \E t \in Built : next_job' = [next_job EXCEPT ![c] = t]
  /\ after(c, "built")
  /\ UNCHANGED <<chain_vars, serving, share_vars, link_vars, subscribed,
                 template, reader_vars, work, crossed>>

\* The template is looked at, and read for the next job or rebuilt.  The one read
\* may be one the reader is about to replace: the first one, when it subscribes.
Wake(c) ==
  /\ ticker[c] = "sleep" /\ alive(c) /\ serving
  /\ c \in subscribed
  /\ \/ /\ template[c].prev = tip
        /\ next_job' = [next_job EXCEPT ![c] = template[c]]
        /\ after(c, "send")
        /\ meets(c, reader[c] \in {"greet", "renew"})
     \/ /\ template[c].prev # tip
        /\ \E t \in Built : next_job' = [next_job EXCEPT ![c] = t]
        /\ after(c, "built")
        /\ UNCHANGED crossed
  /\ UNCHANGED <<chain_vars, serving, share_vars, link_vars, subscribed,
                 template, reader_vars, work>>

\* The rebuilt template is written; what is read back at once is the same, or
\* what the other thread wrote and has sent itself.
Rebuild(c) ==
  /\ ticker[c] = "built"
  /\ replace(c, next_job[c], reader[c] # "idle")
  /\ after(c, "send")
  /\ UNCHANGED <<chain_vars, serving, share_vars, link_vars, subscribed,
                 reader_vars, next_job, work>>

SendJob(c) ==
  /\ ticker[c] = "send"
  /\ sent(c, next_job[c])
  /\ after(c, "sleep")
  /\ next_job' = [next_job EXCEPT ![c] = NoTemplate]
  /\ UNCHANGED <<chain_vars, serving, share_vars, link, connects, inbox,
                 subscribed, template, reader_vars, work, crossed>>

-----------------------------------------------------------------------------

PoolInit ==
  /\ tip = 0 /\ height = 0 /\ writer = "free"
  /\ serving = TRUE
  /\ shares = << >>
  /\ share_count = [a \in Conn \cup Others |-> 0]
  /\ recording = "nobody"
  /\ link = [c \in Conn |-> "cut"]
  /\ connects = 0
  /\ inbox = [c \in Conn |-> << >>]
  /\ outbox = [c \in Conn |-> << >>]
  /\ subscribed = {}
  /\ template = [c \in Conn |-> NoTemplate]
  /\ reader = [c \in Conn |-> "off"]
  /\ tmpl = [c \in Conn |-> NoTemplate]
  /\ ticker = [c \in Conn |-> "off"]
  /\ next_job = [c \in Conn |-> NoTemplate]
  /\ work = [c \in Conn |-> << >>]
  /\ crossed = {}

ReaderStep(c) ==
  \/ EndReader(c) \/ Subscribes(c) \/ TakeShare(c)
  \/ Write(c) \/ Send(c) \/ Check(c) \/ Record(c) \/ Win(c) \/ Renew(c)

TickerStep(c) == EndTicker(c) \/ Wake(c) \/ Rebuild(c) \/ SendJob(c)

PoolNext ==
  \/ PeerBlock \/ Publish \/ StopServer
  \/ \E o \in Others : OtherShare(o)
  \/ \E c \in Conn :
       \/ Connect(c) \/ TakeJob(c) \/ Lose(c) \/ ReaderStep(c) \/ TickerStep(c)
       \/ \E block \in BOOLEAN : FindShare(c, block)

\* Threads run, and get the locks they wait for although others want them too
\* (the locks of parking_lot are fair in the long run).  Nothing is assumed of
\* luck, of the network or of the user.
PoolFairness ==
  /\ WF_pool_vars(Publish)
  /\ \A o \in Others : WF_pool_vars(Credit(o) /\ OtherShare(o))
  /\ \A c \in Conn :
       /\ SF_pool_vars(ReaderStep(c))
       /\ WF_pool_vars(TickerStep(c))
       /\ WF_pool_vars(TakeJob(c))

PoolSpec == PoolInit /\ [][PoolNext]_pool_vars /\ PoolFairness

-----------------------------------------------------------------------------
(* Properties *)

\* The variables hold what their comments say.
PoolTypeOK ==
  /\ tip \in 0..MAX_TIPS /\ height \in 0..tip
  /\ writer \in Conn \cup {"free", "peer"}
  /\ writer = "free" => height = tip
  /\ serving \in BOOLEAN
  /\ shares \in Seq(Conn \cup Others)
  /\ share_count \in [Conn \cup Others -> Nat]
  /\ recording \in Conn \cup Others \cup {"nobody"}
  /\ link \in [Conn -> {"up", "cut"}]
  /\ connects \in 0..MAX_CONNECTS
  /\ \A c \in Conn : inbox[c] \in Seq(Message) /\ outbox[c] \in Seq(Template)
                     /\ work[c] \in Seq(Template)
  /\ subscribed \subseteq Conn
  /\ template \in [Conn -> Template]
  /\ tmpl \in [Conn -> Template]
  /\ next_job \in [Conn -> Template]
  /\ reader \in [Conn -> {"off", "idle", "greet", "fresh", "tell", "check",
                          "record", "credit", "win", "won", "renew", "offer"}]
  /\ ticker \in [Conn -> {"off", "sleep", "built", "send"}]
  /\ crossed \subseteq Conn

occurrences(a) == Cardinality({i \in DOMAIN shares : shares[i] = a})

\* Payouts follow the window (pool/mod.rs, record_share against
\* payout_outputs), whichever threads record at a time: the counts are those of
\* its shares, short of the one share being recorded; a coinbase built at any
\* moment claims the whole total and no more; and it pays an address what its
\* shares are worth to the last unit, or nothing if it has none.
PayoutsFollowWindow ==
  /\ Len(shares) =< PPLNS_WINDOW
  /\ \A a \in Conn \cup Others :
       share_count[a] + (IF recording = a THEN 1 ELSE 0) = occurrences(a)
  /\ \A total \in Totals, decodable \in SUBSET (Conn \cup Others) :
       LET out  == payout_outputs(total, decodable)
           size == Len(shares) - (IF recording = "nobody" THEN 0 ELSE 1)
       IN  /\ SumFunction(out) = total
           /\ \A a \in decodable :
                LET due == total * share_count[a] IN
                  /\ occurrences(a) = 0 => out[a] = 0
                  /\ out[a] * size =< due
                  /\ size > 0 => due < (out[a] + 1) * size

\* A share mined on the present tip is refused on two kinds of connection only:
\* one whose threads crossed, each putting a template of its own in place or sending
\* the one there while the other was about to replace it; and one that had a win
\* refused, after which the reader gives up a template the tip has not left.
RefusalsAreCrossings ==
  \A c \in Conn :
    reader[c] = "check" /\ ~ check_share(c) /\ share(c).of.prev = tip
    => c \in crossed

\* The workers of a connection end up on the tip, and come back again and again to
\* the template of their connection, in whatever order its two threads wrote their
\* templates and sent their jobs, and however often a win is refused.
MinersReachTheTip ==
  \A c \in Conn :
    LET miner == link[c] = "up" /\ serving
    IN  /\ <>[](miner => /\ template[c].prev = tip
                         /\ work[c] # << >> /\ work[c][1].prev = tip)
        /\ []<>(miner => work[c] = <<template[c]>>)
=============================================================================
