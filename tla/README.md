# MyMTA in TLA+

A specification of MyMTA, a mail transfer agent in Rust: what its parts keep,
what they do to each other, which properties make them correct, and what was
model-checked with TLC and proved with TLAPS. Paths below are relative to the
repository's `src/` directory.

## The system

A message enters by SMTP (`smtp/`) or by HTTP (`http/`), is written to a spool
directory (`spool/`), is put into a queue per destination (`queue/`), and is
delivered by an SMTP client (`delivery/`) to the mail servers that DNS names
(`dns/`). `main.rs` starts the SMTP server and the HTTP API on one spool; the
queue manager and the delivery client are complete as modules, with tests, and
are not started by `main.rs`: nothing calls `enqueue` outside tests, though the
repository's README.md:479 says that messages are enqueued automatically.

| Part | State | Operations | Interacts with | Hard about it |
|---|---|---|---|---|
| session (`smtp/session.rs`, `message/envelope.rs`) | state, envelope, data buffer | one per command, `feed_data_line`, `take_message_data` | called by the connection loop | any order of commands; what survives a transaction |
| connection loop (`smtp/server.rs`) | BufReader, pending replies, BufWriter | `handle_connection`, `spool_message` | client by TCP, session, spool | pipelining, segmentation, flushing, failing store, end of stream |
| command parser, responses (`smtp/command.rs`, `smtp/response.rs`) | none | parse, format | session | address syntax and its limits |
| spool (`spool/disk.rs`) | directory, `tmp/` | `store`, `read_*`, `remove`, `list_queue` | server, HTTP, queue | concurrent stores, partial failure, cancelled callers, crashes |
| queue (`queue/manager.rs`) | map of destination queues: list, in-flight counter | `enqueue`, `next_for_delivery`, `on_delivery_*` | spool, delivery workers | locks and awaits between them, counters, order, retries |
| retry schedule (`queue/retry.rs`) | none | `delay_for_attempt`, `should_give_up` | queue | edges of the schedule |
| delivery (`delivery/`) | connection, addresses tried, results | `deliver`, `select_destination`, one method per command | DNS, remote servers | late, partial and lost replies; permanent and transient errors; fallback; duplicates |
| DNS (`dns/`) | cache with TTLs | lookups, CNAME chains | delivery | expiry, concurrent inserts, negative answers |
| HTTP API (`http/api.rs`) | none of its own | `inject`, `inject_raw`, `health` | spool | validation, store errors, cancelled requests |
| message parser (`message/parser.rs`) | none | parse, add headers, serialize | server, HTTP | folding, line ends, parsing again what was written |
| SPF, DMARC, DKIM (`auth/`) | none | evaluate, align, canonicalize, sign | nobody yet | prefixes of addresses, order of terms and tags, what survives transport |
| configuration (`config.rs`) | none | load once | everything | which layer wins, and which errors stop the start |

`PROJECT.json` lists these parts with their status, the hazards at their lines,
and for every definition of a module the lines it stands for.

## Modules

| Module | Models | Kind |
|---|---|---|
| `SmtpSession` | one session with its envelope | specification |
| `SmtpServer` | one connection: EXTENDS `SmtpSession`, adds the loop, its buffers, the client and the spool | composition |
| `AtomicSpool` | what the spool promises | abstract specification |
| `DiskSpool` | the spool as file system calls; implements `AtomicSpool` | specification |
| `MailQueue` | what the queue promises to deliverers | abstract specification |
| `QueueManager` | the destination queues, their locks, the retry schedule; implements `MailQueue` | specification |
| `SmtpClient` | one delivery: the client, the choice of destinations, and the servers at the other ends | composition |
| `DnsResolver` | concurrent lookups through the shared cache, against a zone that changes | composition |
| `Text` | the methods of `str` that the parsers use | operators |
| `MailText` | the message parser and serializer; a body as it is sent and taken in | operators |
| `SmtpCommandParser` | command lines and addresses | operators |
| `HttpApi` | the two injection handlers | operators |
| `MxResolver` | the targets of a delivery; CNAME chains | operators |
| `DkimCanon`, `SpfPolicy`, `DmarcPolicy` | what a signature covers; SPF and DMARC records | operators |
| `ConfigLayers` | the layers of the configuration | operators |
| `Algorithms` | EXTENDS the modules of operators: calls each function once, with the properties of the results | specification |
| `MCSmtpSession`, `MCSmtpServer`, `MCDiskSpool`, `MCQueueManager`, `MCSmtpClient`, `MCDnsResolver`, `MCAlgorithms` | values of the constants for TLC | model checking |
| `SmtpSessionProofs`, `SmtpServerProofs`, `DiskSpoolProofs`, `QueueManagerProofs`, `DnsResolverProofs`, `SmtpClientProofs`, `SmtpClientReplyProofs`, `AlgorithmsProofs` | theorems | proofs |

Operators whose comment begins with "Variant:" are alternatives a change to the
code could plausibly introduce. No specification uses them; `PROJECT.json` pairs
each with the property that fails when it takes the place of the real one.

### SmtpSession

`state`, `envelope` and `dataBuffer` are the fields of `SmtpSession`; there is
one action per handler, and `AnswerOnly` is a command that gets a reply and
changes nothing (parse errors, NOOP, VRFY, HELP). `reply` is what the call
returned. `txn`, `fed` and `queued` record what a client may conclude from the
replies; no guard reads them.

A line of a body is the number of its leading dots and whether anything follows
them, which is all that dot-unstuffing and the terminator look at. Sizes are
counted in lines. A response is its code and queue id. Queue ids are numbered in
the order in which they are drawn; the code draws 48 random bits.
`take_message_data` is part of `EndOfData`, since the loop calls it at once. The
session's closing flag is the state `Closing`.

### SmtpServer

The library's buffers are explicit: a line goes from the socket (`toServer`) to
the BufReader (`readBuf`, and `partial` for the beginning of a line); a reply
goes from the vector `pending` or directly to the BufWriter (`writeBuf`) and to
the client (`received`) with a flush. The BufWriter flushes by itself when 8 KB
are waiting, which no client of this model reaches. `ServeCommand`,
`ServeDataLine` and `ServeEndOfData` are the iterations of the loop. While
`spool_message` awaits the disk the connection is `"spooling"`; the store
succeeds or fails, and the reply is the same (server.rs:172-178). The end of
stream, an error or the end of the process closes the connection, and what is
still in the BufWriter is dropped.

A client waits for all answers, or pipelines as RFC 2920 allows and waits for the
answer to DATA, or waits for nothing and sends a body behind every DATA
(`patience`). It may close its side or be cut off at any time, in the middle of
a line too. A line cut off after its first character may be a lone dot. It may
also begin a line and leave it at that (`begun`): the beginning may arrive
together with whole commands, and then the BufReader is not empty after the last
of them, and their replies stay in `pending` until the rest of the line comes.

That no command is taken for a line of a body (`CommandsAreNotBodies`) ends with
the first body that is refused for its size: `feed_data_line` answers 552 in the
middle of it (session.rs:276-282), what is left of it is answered as commands, and
a client that counts its answers is out of step from there on. The property says
so in its condition `NoneTooLarge`.

### AtomicSpool and DiskSpool

Each store is a task that goes through the calls of `atomic_write`: create,
write (in two parts), flush and sync, rename. Any of them may fail, which leaves
the temporary file. A task may also be dropped at any await (`Cancel`): an HTTP
handler is when its client goes away. Readers open a file and read its two
halves. The directory is never fsynced: a name in the spool directory reaches
the disk with `WriteBack`, and `Crash` puts the names on the disk in force
again, may lose every block that was not synced, keeps or loses temporary names,
and ends every task. Two messages of one spool are assumed to have different ids.

`AtomicSpool` has one box per id. A message is placed in one step, Ok is
answered only for a message that was placed, and a crash may leave under each id
the message that was placed there or nothing. The mapping takes the contents of
the file under a name as the box; a torn file would map to no message at all.

### MailQueue and QueueManager

The actions are what a call does under the lock of one destination:
`next_for_delivery` is `StartDelivery` for some destination with a free slot and
a ready message; `on_delivery_success` awaits the spool first and takes the lock
later, so it is `RemoveFromSpool` and `OnSuccess`; `on_delivery_failure` is one
action. A destination that was never used is an empty queue. `enqueue` reads the
envelope and then takes the lock (`ReadEnvelope`, `EnqueueToDomain`), and may end
without enqueueing (`NotEnqueued`). `maxAttempts` does not change; it is a
variable so that one run covers several limits.

`outcome`, `failures` and `arrivals` are history. `failures` is bounded by
`MaxFailures` in the guard of `OnFailure`: a delivery of a message that failed
that often succeeds. The workers are the callers that the module's tests stand
for, since `main.rs` has none.

`MailQueue` has one status per message and the limit; the mapping computes the
status from the lists, the workers and the history.

### SmtpClient

`deliver` is a walk: `dest` is the destination `select_destination` gave,
`stage` the await of `try_deliver_to` the client is in, `waiting` whether it
sits in `read_response`. Each of `Send`, `ReadReply`, `ReadTimesOut` and the
others is one outcome of one await; `OnReply` and `OnError` are what the code
between two awaits does with it, through to the next command, the next
recipient, QUIT, the next destination or the return.

A connection is two queues. What makes the client hard is what they hold after a
timeout: the reply to RCPT TO may still come, and is read as the answer to the
next command; and `read_response` drops what it has read of a line when its
timeout fires, so a line may lose its beginning. `torn` is how much is lost, in
the four classes the code tells apart: nothing, something, all but fewer than
three bytes (where `line_str[3..]` panics), and all but the line feed (where the
rest is glued to the next line). What is left of a line that lost something
(`"mid"`) seldom begins with a code; one that does, "300 seconds", is taken for a
line of its own, with any code of `TailCodes` (`ReadTail`,
`ReadTailContinuation`). The server is external: it obeys the commands it
receives in order, answers with any code of the three classes in any number of
well-formed lines, late or never, closes at will, and finishes what it was sent
after the client has gone. `acked` is history.

The timeout of `read_response` is that of one byte. `heard` says that a byte of a
line, or a whole continuation line, came since it last passed: as long as bytes
come (`ByteComes`) the client waits again (`WaitAgain`), and `ReadTimesOut` is
only for a server that has been silent for a whole `command_timeout`.

Sending has a timeout as well, for a server that is up and does not read
(`SendTimesOut`). A part of the command may then be on its way (`cut`), and what
the client sends next on that connection, another RCPT TO, DATA or QUIT, goes on
with the same line: the server gets `"JUNK"`, which it refuses, with a code that
it may mean for any recipient. Flushing a `TcpStream` never waits.

### DnsResolver

The three lookups of `RealResolver` are one program over keys of three kinds:
the positive entry under the read lock, the negative one under another read
lock, the query, and the insertion under the write lock. `Tick` lets time pass
for every entry, those that wait for the write lock too; an entry keeps the ticks
it has left, so time needs no bound. `age` and `life` are history: what the
properties compare with. hickory-resolver is external: it answers from the zone
at some instant of the query, with any TTL, or fails in any of its ways, and
`Mapped` is what the code makes of them. Concurrent lookups insert out of order;
the last one wins.

### The algorithms

Texts are sequences of symbols: a byte the code looks for, or a word it only
compares. The modules of operators translate the functions; `Algorithms` makes
one call of one function on one of its inputs, and its properties compare the
result with a definition that does not follow the code, or with what the
receiving end makes of it:

- a body as `send_body` writes it, taken in by `feed_data_line` (`BodySurvives`);
- a message parsed, enriched and parsed again (`MessageSurvives`);
- the input of a DKIM signature before and after all of that (`SignatureSurvives`);
- the targets of a domain against what the zone makes reachable, unless the lookup
  of the MX records fails (`TargetsUsable`);
- the first SPF term that is about a client, by prefixes of numbers, where its
  qualifier is `+` (`SpfPassMeansListed`), DMARC records
  against their last tags and domains against their last labels
  (`DmarcAsPublished`);
- every setting against the layers it was given in (`LastLayerWins`);
- an address let in by MAIL or RCPT against the symbols next to each other, and
  the client's line for it as the next server reads it (`AddressesSurvive`);
- a request that was answered 200 against what is in the spool
  (`InjectionAsAsked`).

A symbol has a length in bytes (`Weight`): `L63` has 63, `HALF` 500, `LONG` 1000,
and every other one 1. Limits are compared with the sums, so a folded field of
two lines of 501 bytes becomes one line that is too long. `MessageSurvives` and
`InjectionAsAsked` ask that a message parses again only where its fields fit a
line each, since the code writes the others all the same.

## Runs

| Run | Bounds | Distinct states | Shows |
|---|---|---|---|
| `smtp_session` | 2 addresses (symmetric), 2 recipients, 2 lines, 2 ids, 0 to 3 dots | 1.0 M | every order of commands and lines: envelope, buffer and state agree; what is queued is what was answered 250; ids increase |
| `smtp_recipients` | the same, smaller | found at depth 11 | **violated**: the second transaction is queued to the recipients of the first |
| `smtp_server` | 8 lines from the client, which waits for DATA's answer or for none, 1 line of body, 2 recipients, 3 ids | 0.4 M | replies in order and true under pipelining, segmentation, failing stores and broken connections; no reply is held back while whole lines come; no connection outlives its client |
| `smtp_reply` | 6 lines from a client that waits for every answer | | **violated**: the 250 after the body is never flushed |
| `disk_spool` | 3 messages, 1 reader, 2 crashes | 0.1 M | no torn message under a name or read, and `AtomicSpool` is implemented |
| `queue_manager` | 4 messages (one without recipients), 1 destination, 3 workers, 2 slots, `max_attempts` 1 or 2, 1 failure each, clock 0 and 1 | 0.3 M | slots, places, order, spool files, every message settles, `MailQueue` is implemented |
| `queue_attempts` | 1 message, 2 workers, 3 failures, `max_attempts` 2 | | **violated**: a third attempt |
| `smtp_client` | 4 jobs: no destination; an empty destination and one with 3 recipients; two destinations that share an address, in both orders, with 1 recipient; `MaxUnderWay` 1, `TailCodes` 450 and 550 | 0.6 M | no success that no server gave; a body only to a server that waits for one; a message known to be taken goes nowhere else; one result for each recipient; the call ends, unless one reply goes on coming for ever |
| `client_permanent` | the same without `TailCodes` | | **violated**: a recipient fails for good whom no server refused |
| `dns_resolver` | 2 keys, 2 callers, TTLs 0, 1, 3, caps 2 and 1 | 0.7 M | nothing is served beyond its lifetime; no temporary failure is cached; the cache comes to agree with a zone that is left alone |
| `algorithms` | the texts, zones, records, settings and requests of `MCAlgorithms` | 0.1 M, one per call | the properties of the results |
| `spf_qualifiers` | its SPF records | | **violated**: `-all` passes |

Why the bounds are enough: two transactions are what it takes to carry anything
from one to the next, and three dots cover every case of the unstuffing. Four
commands open a transaction, so eight lines leave room for a body, its dot and
two commands pipelined behind it. Two stores can interfere and a third can follow
a crash; the second crash can hit what the first one restored. Three workers on
two slots compete for a slot and for a message; destinations share nothing but
the map's lock, so one shows what a slot, a list and a retry do, and the proofs
are for any number of destinations.

With three recipients the reply to the first can come during the second and leave
a reply too many for the third and for DATA. Two destinations are one fallback,
and the address they share is the case in which a whole destination is skipped
because its addresses were tried. A reply has any number of lines, but a server
sends a third and later one only when fewer than `MaxUnderWay` lines wait to be
read: more of them in the socket at once make no difference to a client that
reads them one by one. `TailCodes` has no 250 and no 354 in these runs: with those,
the rest of a torn line is a success or a go-ahead that no server gave, and
neither `SuccessMeansAccepted` nor `BodyOnlyWhenAsked` can hold. The texts in
which three digits and a space or a hyphen follow the lost beginning of a line are
the servers' own, and that they do not say 2xx or 354 is an assumption of these two
properties (`TailsRefuse` in the proofs). Two callers are enough for an answer that is
inserted after a newer one; a TTL above the cap, below it and zero are the three
cases of `effective_ttl`.

The alphabets of the texts have one symbol for each byte the code looks for and
one for the rest; bodies go up to seven symbols, which holds a stuffed line
between two line ends. The long symbols put inputs on both sides of the limits of
63, 64, 255 and 998 bytes, the last one reached by one line and by two that are
joined. IP addresses
have 3 bits (IPv4) and 2 segments of 2 bits (IPv6) instead of 32 and 8 of 16, and
every prefix length up to beyond the address; `MaxCnameDepth` is 2 against chains
of two aliases and loops. `MaxRecipients` 2 and `MaxMessageSize` 1200 have inputs
on both sides.

`CHECK_DEADLOCK FALSE` is in every configuration but that of `dns_resolver`,
because every other model may end: a session at QUIT, a connection at its close,
the stores and deliveries when all are done, a call when it returns. The resolver
always has a step: time goes on.

### Fairness

- `FairServerSpec`: weak fairness of the server's part. Its task is woken when
  the socket has bytes or the end of the stream, and when the disk answers. The
  client owes nothing, not even the end of a line it has begun: it may be silent
  for ever, and may vanish. So `PendingIsFlushed` is only about clients that do not
  leave a line unfinished for ever; `read_line` has no timeout (server.rs:95).
- `FairSpec` of `QueueManager`: weak fairness of each worker, which polls, and
  whose deliveries end, by success or by failure, because the client has timeouts
  for every step. The clock and `enqueue` are not fair.
- `SmtpClient`: weak fairness of the client: it takes its next step, and a timeout
  passes when it is due, which in `read_response` is after `command_timeout` without
  a byte. Nothing is assumed of the servers, which may be silent or send byte after
  byte, or line after line of one reply, for ever: a wait need not end, and
  `DeliverEnds` has this one exception. A call that panics (`ReadShort`) has ended
  too.
- `DnsResolver`: time passes, and each caller whose lookup has begun goes on: the
  cache's locks are held for no await, and hickory-resolver has a timeout for
  each query. Nobody has to begin a lookup.
- Everything else is safety.

### Where the code and its documentation disagree

Five runs check what the documentation or a comment says and find it violated;
the findings in `PROJECT.json` quote the lines.

1. `smtp_recipients`: the envelope is not reset after a message, and MAIL FROM
   keeps the recipients that are in it. A client that sends a second message
   without RSET sends it to the recipients of the first as well.
2. `smtp_reply`: the replies made in DATA mode are not flushed. A client that
   does not pipeline never sees the 250. The integration tests drive a copy of
   the loop that flushes.
3. `queue_attempts`: `on_delivery_failure` counts attempts from 0 each time, so
   `max_attempts` of 2 or more is never reached and every retry is immediate.
4. `client_permanent`: after a timeout on RCPT TO the client goes on with the next
   recipient (client.rs:200-222). The late 550 of the first is taken for the answer
   to the second, which gets a permanent failure, "should generate bounce"
   (result.rs:15), while the first gets a transient one.
5. `spf_qualifiers`: the qualifier of an SPF mechanism is parsed and dropped
   (spf.rs:173-177), and any match passes (spf.rs:216-219), `-all` included.
Reading the code for the models also showed the following. The models have it as
the code does it, and the properties that would be about it say in their comments
that they leave it out:

- The replies to pipelined commands are held until the BufReader is empty, which the
  beginning of a line is enough to prevent (server.rs:88-90, 122-131). A client that
  does not finish that line does not get them (`PendingIsFlushed`).
- `command_timeout` is that of one byte (client.rs:486-498), though connector.rs:22
  calls it the timeout of a command, and there is no limit on the lines of a reply. A
  server that sends a byte in time, again and again, keeps `deliver` for ever
  (`DeliverEnds`).
- After a timeout in the middle of a line the next line that is read may have fewer
  than three bytes, and `line_str[3..]` panics (client.rs:536).
- The lines of a folded field are joined and written as one line (parser.rs:109-112,
  171-179). If that is longer than 998 bytes, the message that was spooled does not
  parse again (parser.rs:70-78; README.md:40; `MessageSurvives`).
- An MX query that fails with SERVFAIL or a timeout falls back to the domain's own
  addresses (mx_resolve.rs:106-109), although README.md:534 has it retried and
  README.md:516 has the fallback only without MX records (`TargetsUsable`).
- HTTP accepts an empty recipient, which is a valid null path (api.rs:227,
  command.rs:203-205), where RCPT TO does not, although api.rs:10-11 says that the
  checks are the same; and it writes the fields of a request into header lines as
  they come (api.rs:146-157), so that a line end in one of them can end the header
  (`InjectionAsAsked`).
- No DNS failure ever becomes a permanent delivery error (error.rs:102), although
  README.md:532-533 and 537 have NXDOMAIN, NODATA and CNAME loops bounced. After a
  CNAME loop there is no fallback: the address lookups meet the same loop.
- The second destination of a delivery is skipped when it shares all its addresses
  with the first one that failed.
- A message that does not parse is spooled as it is when it came by SMTP
  (server.rs:155-170; README.md:357-372).
- A message that is given up stays in the spool (manager.rs:111).
- A flag in the environment that is neither true nor false resets the flag to its
  default, whatever the file says (config.rs:253-266).
- SPF: a term that begins with `a` is taken for the mechanism `a`; `a`, `mx`,
  `ptr`, `exists` and `include` never match, although README.md:756 lists them among
  the mechanisms that are evaluated; a prefix length beyond 32 overflows
  and one of 144 or more for `ip6` is out of bounds. DMARC: relaxed alignment
  holds for subdomains in one direction only, and `pct` may be 101 to 255.
- DKIM: relaxed body canonicalization does not compress white space inside a line;
  dkim.rs:449 says that line ends become a space, and they are removed.

## Proofs

All theorems hold for every value of the constants that satisfies the named
assumptions, which TLC evaluates in every run:

- `SessionAssumption`: limits are naturals, the null path is no address.
- `ServerAssumption`: the client begins with known commands, of which only the last
  may be DATA (what is behind a DATA depends on its answer), and sends finitely many
  lines; a line may begin with two dots, so that a body may have a stuffed line.
- `SpoolAssumption`: ids of different messages differ.
- `QueueAssumption`: limits are naturals, finitely many workers.
- `ResolverAssumption`: TTLs and their caps are naturals, "none" is no record.
- `ClientAssumption`: the jobs have their types and sizes, and so have `MaxUnderWay`
  and `TailCodes`.
- `TailsRefuse`, a hypothesis of the theorems of `SmtpClientReplyProofs` alone: the
  rest of a torn line is not taken for a 250 or a 354.

**`SmtpSessionProofs`.** `TypeCorrect`, then `EnvelopeCorrect`, `BufferCorrect` and
`QueuedCorrect`, each inductive relative to the ones before it. That a line fed and
its unstuffed form keep `Carries`, and that `EndsWith` survives an append, are
lemmas. `IdsIncrease` needs `IdsBelowNext`: the id of the last message is below the
next id, and during DATA below the one just drawn.

**`SmtpServerProofs`.** `ServerRunsSession`: every step of a connection is a step of
its session or leaves it alone, so all that is proved of sessions holds of
connections, and the proofs here use the session's types and its envelope.
`DataModeFlushed` is not inductive: the iteration that enters DATA mode has to write
out the vector first. The invariant adds that the vector is empty while a message is
being stored. `AcknowledgedIsSpooled` is a fact about what the client has received,
so it is strengthened to everything issued, and while a message is being stored its
answer is ready and has its id. `CommandsAreNotBodies` takes the longest argument:
what the client sends depends on replies that it has or has not read. `StreamInv` is
about the lines under way, in the socket and in the BufReader: a command comes only
behind the dot that ends the body before it, and the body lines of a client that
waits for DATA's answer belong to the body the session receives. That this client
waits for the right answer needs `Numbered`: the lines under way can be numbered by
the replies that will have been made when they are answered, up to the number the
client is due, so that the last reply it has counted is the one to its DATA.

**`DiskSpoolProofs`.** `NoTornMessage` is not inductive, since a name says nothing of
how its file came to be complete. The inductive invariant `Inv` adds `Progress` (how
much of its file a store has written and synced at each step), `NamesStored` (a name
leads to the file of a renamed store, on the disk too) and `ReadersHoldStored`. A
store writes to its own file alone (`OwnFile`), so a stored file never changes.
`Refinement` maps the rename to `Place`, the return to `Acknowledge`, the removal to
`TakeOut`, the crash to `Lose`, and everything else to a step that changes nothing.

**`QueueManagerProofs`.** `TypeCorrect`, and `SlotsCorrect`, by the cardinality of the
set of workers that hold a slot of a destination. `ExactlyOnePlace` counts places and
is not inductive; `OnePlaceInv` says it by the parts that a step moves a message
between: lists hold no message twice and only live ones, each in the list of its own
destination; workers hold live ones, each held by one worker and in no list; a live
message is somewhere; a settled one had been enqueued. With `UndeliveredAreSpooled`
it gives `SpoolCorrect`. `OrderCorrect` is an action property: that a first attempt
overtakes none of its priority that came earlier needs `OrderInv`, which relates the
order of the list to the order of arrival, retries and their changed priority between
them included. `Refinement` maps each step to one of `MailQueue` or to none: a call
of `next_for_delivery` to the start of a delivery, the removal from the spool to
nothing, the end under the lock to the settlement.

**`DnsResolverProofs`.** `CacheTypes`, which bounds the time of every entry by the
limit of its kind, `max_ttl` or `negative_ttl`, in the cache and with the callers
that are about to insert one, and `ServedInTime`. What is served has time left; that this bounds its age needs `Timed`:
as long as an entry has time left, in the cache or with a caller that waits for the
write lock, its age and its time left add up to its lifetime.

**`SmtpClientProofs`.** `TypeCorrect` and `AckedFinal`, from one inductive invariant.
`Counted` says how many results there are at each stage, which bounds them and makes
them complete after the last recipient. `Settled` says that a client that read the
acceptance has only QUIT left, on a connection with nothing torn: there neither an
error nor a panic can turn the success into a failure. `StayKeeps` reduces every step
within a connection to what it does to the results; `FailKeeps` is the way to the
next destination; `Selected` needs the well-foundedness of the naturals for the first
destination that is open.

**`SmtpClientReplyProofs`.** `SuccessCorrect` and `BodyCorrect`: whatever is late, torn,
cut off or answered in many lines, a success was given by a server that took this
message for this recipient, and the body goes only to a server that waits for it. The
code has no argument for this in it: after a timeout on RCPT TO the client goes on,
and takes old replies for new ones (which `client_permanent` shows going wrong). The
argument is the inductive invariant `SyncInv` (`Synchrony`), under `TailsRefuse`. The
client is in step (`InStep`); or it has begun a reply with a code that is no success,
or reads what is left of a torn line, and will note a failure whatever ends that reply
(`Sound`); or it is `Behind`, which it stays. Until it is behind it knows of every
success it noted. Behind it does not, but DATA is the last command it has sent, so a
354 can only be the last reply to come (`GoAheadLast`), and a client that is behind
reads an earlier one in its place and gives up. Being behind is a matter of where the
next reply to be read ends among all that is to come (`ToCome`, `Stale`), with one line
for each command not answered yet. The rest of a torn line can swallow one line that
was too much, a reply that a continuation of it or its missing line feed goes on with,
and the client is in step again after it; so a client with a torn line ahead is behind
only if one line more is to come (`StaleRest`). TLC checked the invariant on the run's
jobs before it was proved for any number of destinations, recipients and lines.

**`AlgorithmsProofs`.** `LayersCorrect`: `LastLayerWins` for any files and
environments. `SortedCorrect`: `SortedByPreference`, which the model defines by the
rank of a record, returns a permutation of the records, by preference and stable. A
record ranks below another iff it goes ahead of it, so the ranks are distinct, and as
many as there are indices. `TransferCorrect` and `DmarcCorrect` state `BodySurvives` and
`DmarcAsPublished`, for texts and records of any length, from the assumptions that the
inputs are sequences and a record has a tag at least (`BodiesAreTexts`,
`RecordsHaveTags`, `DomainsAreTexts`). They are inductions over texts. The induction
theorems of the library take an operator, which no prover here can instantiate; so
`Induction` and `InductionOnTexts` state induction for the members of a set, from the
well-foundedness of the naturals, and `Split` and `ParseDmarc` are recursive functions,
which `StepsExist` shows to be defined. For a body: `str::split` of a text with its line
ends gives the lines back (`SplitLines`); a line that is stuffed, ended and trimmed is
not the lone dot, and unstuffed it is the line (`LineSurvives`); so the first lone dot is
the client's own. For DMARC: `TagMeans` is the step from tag to tag, with the last tag of
each key; and `LabelsMatch` compares two domains symbol by symbol from their ends, where
a dot ends a label in both or in neither. `TargetsCorrect` states `TargetsUsable` for any
zone whose answers are sequences, with preferences that are numbers (`ZonesHaveRecords`);
like the property it says nothing of domains whose MX lookup fails.
`ChainProgress` is the invariant of the loop that follows the aliases: it is under way, or
stands at a name without an alias, or has met a name again, and then every name it can
reach has an alias (`Cycles`); so it finds the end of the aliases whenever fewer than
`MaxCnameDepth` lead there (`ChainFinds`). `AddKeeps` is the invariant of the loop over the
exchanges, and `SortedCorrect` gives the bijection between the records and their order.

TLC alone checks:

- liveness (`PendingIsFlushed`, `ClientGoneServerGone`, `EveryMessageSettles`,
  `DeliverEnds`, `ChangesAreSeen`), which rests on ENABLED;
- the other properties of the algorithms: `MessageSurvives`, `SignatureSurvives`,
  `SpfPassMeansListed`, `AddressesSurvive` and `InjectionAsAsked`. Parsing of messages
  and commands and SPF records are folds and selections over sequences; selecting from
  a sequence and powers of two, on which the prefixes of addresses rest, have no theory
  in the provers.

## Not modelled

- `main.rs`: starts two servers on one spool and has no state of its own. The
  accept loop starts one independent task per connection.
- TLS in `delivery/`: the code is behind a feature that Cargo.toml does not
  declare, so no build contains it. The capabilities read from EHLO are read by
  nothing else. `ContentError` and `TlsFailed` are made by no code.
- Keys, hashes and signatures of DKIM, and the DKIM selectors of the
  configuration, which nothing uses but their own lookup.
- `SpfVerifier::verify` and `DmarcVerifier::verify`, which are placeholders.
- JSON, the command line, the HTTP framework, and the texts of replies, errors and
  logs.
- A worker that never gets its turn because `next_for_delivery` tries the
  destinations in the order of a HashMap (manager.rs:205): the order is fixed for
  a map but unspecified, and a property of it would be one of the library.

Bounds of the data: server lines are ASCII and, until a timeout tears one, have a
code and a separator; the Received field that the server adds is taken to fit a line,
whatever its own host name is.

What could come next: the folds of `SpfPolicy` as recursive functions, with lemmas on
powers of two, towards `SpfPassMeansListed`; and, once `main.rs` starts the queue
manager and the client, a composition of ingestion, spool, queue and delivery with
restarts.
