------------------------- MODULE IntelligentExchange -------------------------
(***************************************************************************)
(* One call of `SubprocessIntelligentPcbExchangeAdapter::export`           *)
(* (src/intelligent_exchange.rs): the caller starts an adapter program,    *)
(* a thread writes the request to it, two threads read its output and its  *)
(* errors up to a limit, and the caller polls for its exit until a         *)
(* deadline, joins the threads and judges the answer.                      *)
(*                                                                         *)
(* The adapter is any program: it reads, writes, closes its streams and    *)
(* exits as it likes, and may leave a descendant behind that holds some of *)
(* the streams open.  Streams are counted in chunks.  Errors of the        *)
(* operating system other than a failing spawn and a broken pipe, and      *)
(* panics of the threads, are not modelled.                                *)
(***************************************************************************)
EXTENDS Integers, Sequences, SequencesExt

CONSTANTS
  Identity,         \* the adapter's identity: [name, format]
  Requests,         \* requests a caller may send
  Outputs,          \* what an output may decode to: [parses, package]
  RequestSize,      \* chunks of an encoded request
  PipeSize,         \* chunks a pipe holds
  MaximumResponse,  \* self.maximum_response_bytes, in chunks
  ErrorLimit,       \* chunks of errors that are kept
  Descendants       \* TRUE when the adapter may leave a descendant behind

\* What a sequence is to a proof.
IsSequence(list) == Len(list) \in Nat /\ DOMAIN list = 1..Len(list)

ASSUME ExchangeAssumption ==
  /\ RequestSize \in Nat /\ MaximumResponse \in Nat /\ ErrorLimit \in Nat
  /\ PipeSize \in Nat \ {0}
  /\ Descendants \in BOOLEAN
  /\ \A r \in Requests : IsSequence(r.source.descriptors)
  /\ \A a \in Outputs :
       /\ a.parses \in BOOLEAN
       /\ a.parses => IsSequence(a.package.descriptors)

VARIABLES
  caller,     \* where the call stands
  request,    \* the request of this call
  exported,   \* what it returned: an error, "Ok", or "None"
  late,       \* whether the deadline has passed
  adapter,    \* the program: "absent", "running", "succeeded" or "failed"
  decoded,    \* what its output decoded to
  held,       \* streams whose far end the program or a descendant holds
  queued,     \* chunks in each pipe
  writer,     \* the thread writing the request
  left,       \* chunks it still has to write
  open,       \* streams whose reading thread is still reading
  collected   \* chunks each reading thread has read

exchangeVars == <<caller, request, exported, late, adapter, decoded, held,
                  queued, writer, left, open, collected>>

Replies == {"output", "errors"}
Streams == {"input"} \cup Replies
Limit == [s \in Replies |->
            IF s = "output" THEN MaximumResponse ELSE ErrorLimit]

-----------------------------------------------------------------------------
(* Packages: the manifest's fields, its file descriptors in order, and the *)
(* files by path.  A content stands for its length and its digest.         *)

FirstError(errors) ==
  LET found == {i \in DOMAIN errors : errors[i] # "None"} IN
  IF found = {} THEN "None"
  ELSE errors[CHOOSE i \in found : \A j \in found : i <= j]

Unless(holds, error) == IF holds THEN "None" ELSE error

DescriptorErrorByDigest(package, i) ==
  LET d == package.descriptors[i] IN
  Unless(/\ d.path \in DOMAIN package.files
         /\ package.files[d.path] = d.content, "DigestMismatch")

DescriptorError(package, i) ==
  LET d == package.descriptors[i] IN
  FirstError(<<
    Unless(\A j \in 1..(i - 1) : package.descriptors[j].path # d.path,
           "DuplicateFile"),
    Unless(d.path \in DOMAIN package.files, "MissingFile"),
    Unless(d.path \in DOMAIN package.files =>
             package.files[d.path] = d.content, "DigestMismatch")>>)

Listed(package) == {package.descriptors[i].path :
                      i \in DOMAIN package.descriptors}

Verify(package) ==
  FirstError(<<
    Unless(package.version = "current", "ProtocolVersion"),
    Unless(package.adapter.format = package.format, "FormatMismatch"),
    FirstError([i \in DOMAIN package.descriptors |->
                  DescriptorError(package, i)]),
    Unless(DOMAIN package.files \subseteq Listed(package),
           "UnexpectedFile")>>)

\* `IntelligentPcbExchangePackage::new` over files [path, media, content],
\* for inputs it accepts; paths are numbers so that the sort is the code's.
NewPackage(adapter_, source, files) ==
  [version |-> "current", format |-> adapter_.format, adapter |-> adapter_,
   source |-> source,
   descriptors |-> SortSeq([i \in DOMAIN files |->
                              [path |-> files[i].path,
                               content |-> files[i].content]],
                           LAMBDA a, b : a.path < b.path),
   files |-> [p \in {files[i].path : i \in DOMAIN files} |->
                (CHOOSE f \in {files[i] : i \in DOMAIN files} :
                   f.path = p).content]]

RequestError(r) ==
  FirstError(<<
    Unless(r.version = "current", "ProtocolVersion"),
    Verify(r.source),
    Unless(r.format = Identity.format, "FormatMismatch")>>)

MismatchError(package, r) ==
  Unless(/\ package.format = r.format
         /\ package.adapter = Identity
         /\ package.source = r.source.source, "FormatMismatch")

-----------------------------------------------------------------------------
(* The caller                                                              *)

Unread == [parses |-> FALSE]

NothingStarted ==
  /\ exported = "None"
  /\ late = FALSE
  /\ adapter = "absent"
  /\ decoded = Unread
  /\ held = {}
  /\ queued = [s \in Streams |-> 0]
  /\ writer = "absent"
  /\ left = RequestSize
  /\ open = {}
  /\ collected = [s \in Replies |-> 0]

ExchangeInit == caller = "calling" /\ request \in Requests /\ NothingStarted

Exported(r) == caller' = "returned" /\ exported' = r

RefuseRequest ==
  /\ caller = "calling"
  /\ RequestError(request) # "None"
  /\ Exported(RequestError(request))
  /\ UNCHANGED <<request, late, adapter, decoded, held, queued, writer, left,
                 open, collected>>

SpawnFails ==
  /\ caller = "calling"
  /\ RequestError(request) = "None"
  /\ Exported("Process")
  /\ UNCHANGED <<request, late, adapter, decoded, held, queued, writer, left,
                 open, collected>>

Spawn ==
  /\ caller = "calling"
  /\ RequestError(request) = "None"
  /\ caller' = "polling"
  /\ adapter' = "running"
  /\ held' = Streams
  /\ writer' = "writing"
  /\ open' = Replies
  /\ UNCHANGED <<request, exported, late, decoded, queued, left, collected>>

\* The loop asks for the exit first and looks at the clock afterwards.
PollExit ==
  /\ caller = "polling"
  /\ caller' = IF adapter = "running" THEN "timing" ELSE "joining"
  /\ UNCHANGED <<request, exported, late, adapter, decoded, held, queued, writer,
                 left, open, collected>>

PollAgain ==
  /\ caller = "timing"
  /\ ~late
  /\ caller' = "polling"
  /\ UNCHANGED <<request, exported, late, adapter, decoded, held, queued, writer,
                 left, open, collected>>

\* When the program ends, its streams close but for those a descendant holds.
EndProgram(ending) ==
  /\ adapter' = ending
  /\ \E kept \in IF Descendants THEN SUBSET held ELSE {{}} : held' = kept

KillNothing == UNCHANGED <<adapter, held>>
Kill == IF adapter = "running" THEN EndProgram("failed")
        ELSE UNCHANGED <<adapter, held>>

TimeOut ==
  /\ caller = "timing"
  /\ late
  /\ Kill
  /\ Exported("Timeout")
  /\ UNCHANGED <<request, late, decoded, queued, writer, left, open, collected>>

Verdict(output) ==
  FirstError(<<
    Unless(collected["output"] <= MaximumResponse, "ResponseLimit"),
    Unless(adapter = "succeeded", "Crashed"),
    Unless(writer = "done", "Process"),
    Unless(output.parses, "Protocol"),
    Verify(output.package),
    MismatchError(output.package, request)>>)

\* An output may be anything, but an empty one is no answer.
Judge ==
  /\ caller = "joining"
  /\ writer # "writing"
  /\ open = {}
  /\ \E output \in Outputs :
       /\ output.parses => collected["output"] > 0
       /\ decoded' = output
       /\ Exported(IF Verdict(output) = "None" THEN "Ok" ELSE Verdict(output))
  /\ UNCHANGED <<request, late, adapter, held, queued, writer, left, open,
                 collected>>

DeadlinePasses ==
  /\ caller \in {"polling", "timing"}
  /\ ~late
  /\ late' = TRUE
  /\ UNCHANGED <<caller, request, exported, adapter, decoded, held, queued,
                 writer, left, open, collected>>

-----------------------------------------------------------------------------
(* The threads                                                             *)

Writes ==
  /\ writer = "writing"
  /\ left > 0
  /\ "input" \in held
  /\ queued["input"] < PipeSize
  /\ queued' = [queued EXCEPT !["input"] = @ + 1]
  /\ left' = left - 1
  /\ UNCHANGED <<caller, request, exported, late, adapter, decoded, held, writer,
                 open, collected>>

WriterEnds ==
  /\ writer = "writing"
  /\ \/ left = 0 /\ writer' = "done"
     \/ left > 0 /\ "input" \notin held /\ writer' = "failed"
  /\ UNCHANGED <<caller, request, exported, late, adapter, decoded, held, queued,
                 left, open, collected>>

\* `take(maximum + 1)`: one chunk past the limit tells that there was more.
TakeLimit(s) == Limit[s]
Take(s) == Limit[s] + 1

Reads(s) ==
  /\ s \in open
  /\ queued[s] > 0
  /\ collected[s] < Take(s)
  /\ queued' = [queued EXCEPT ![s] = @ - 1]
  /\ collected' = [collected EXCEPT ![s] = @ + 1]
  /\ UNCHANGED <<caller, request, exported, late, adapter, decoded, held, writer,
                 left, open>>

ReaderEnds(s) ==
  /\ s \in open
  /\ \/ collected[s] = Take(s)
     \/ queued[s] = 0 /\ s \notin held
  /\ open' = open \ {s}
  /\ UNCHANGED <<caller, request, exported, late, adapter, decoded, held, queued,
                 writer, left, collected>>

-----------------------------------------------------------------------------
(* The adapter program and its descendants                                 *)

AdapterReads ==
  /\ "input" \in held
  /\ queued["input"] > 0
  /\ queued' = [queued EXCEPT !["input"] = @ - 1]
  /\ UNCHANGED <<caller, request, exported, late, adapter, decoded, held, writer,
                 left, open, collected>>

AdapterWrites(s) ==
  /\ s \in held
  /\ s \in open
  /\ queued[s] < PipeSize
  /\ queued' = [queued EXCEPT ![s] = @ + 1]
  /\ UNCHANGED <<caller, request, exported, late, adapter, decoded, held, writer,
                 left, open, collected>>

AdapterCloses(s) ==
  /\ s \in held
  /\ held' = held \ {s}
  /\ UNCHANGED <<caller, request, exported, late, adapter, decoded, queued,
                 writer, left, open, collected>>

AdapterExits ==
  /\ adapter = "running"
  /\ \E ending \in {"succeeded", "failed"} : EndProgram(ending)
  /\ UNCHANGED <<caller, request, exported, late, decoded, queued, writer, left,
                 open, collected>>

-----------------------------------------------------------------------------
CallerStep == \/ RefuseRequest \/ SpawnFails \/ Spawn
              \/ PollExit \/ PollAgain \/ TimeOut \/ Judge

WriterStep == Writes \/ WriterEnds

ReaderStep(s) == Reads(s) \/ ReaderEnds(s)

AdapterStep == \/ AdapterReads \/ AdapterExits
               \/ \E s \in Replies : AdapterWrites(s)
               \/ \E s \in Streams : AdapterCloses(s)

ExchangeNext == \/ CallerStep \/ WriterStep \/ DeadlinePasses \/ AdapterStep
                \/ \E s \in Replies : ReaderStep(s)

ExchangeSpec == ExchangeInit /\ [][ExchangeNext]_exchangeVars

\* The library's own threads are scheduled and time passes; nothing is
\* assumed of the adapter program or of a descendant.
ExchangeFairness ==
  /\ WF_exchangeVars(CallerStep)
  /\ WF_exchangeVars(WriterStep)
  /\ WF_exchangeVars(DeadlinePasses)
  /\ \A s \in Replies : WF_exchangeVars(ReaderStep(s))

-----------------------------------------------------------------------------
\* Chunks the program has put on its output.
Printed == collected["output"] + queued["output"]

\* The value every variable may take, and what the reading threads may hold.
ExchangeTypeOK ==
  /\ caller \in {"calling", "polling", "timing", "joining", "returned"}
  /\ request \in Requests
  /\ late \in BOOLEAN
  /\ adapter \in {"absent", "running", "succeeded", "failed"}
  /\ decoded \in Outputs \cup {Unread}
  /\ held \subseteq Streams
  /\ queued \in [Streams -> 0..PipeSize]
  /\ writer \in {"absent", "writing", "done", "failed"}
  /\ left \in 0..RequestSize
  /\ open \subseteq Replies
  /\ collected \in [Replies -> Nat]
  /\ \A s \in Replies : collected[s] <= Limit[s] + 1

\* What a package that can be trusted looks like, by files and not by checks:
\* each path is listed once and carries the very bytes it is listed with.
Whole(package) ==
  /\ \A i, j \in DOMAIN package.descriptors :
       package.descriptors[i].path = package.descriptors[j].path => i = j
  /\ Listed(package) = DOMAIN package.files
  /\ \A i \in DOMAIN package.descriptors :
       package.files[package.descriptors[i].path]
         = package.descriptors[i].content

\* An accepted answer was read to the end of an output nobody can add to, was
\* printed by a program that ended well and was sent the whole request, is
\* whole, and is the adapter's own answer to the release and the format that
\* were asked for.
AcceptedIsWhole ==
  exported = "Ok" =>
    /\ adapter = "succeeded"
    /\ left = 0
    /\ queued["output"] = 0 /\ "output" \notin held
    /\ decoded.parses
    /\ Whole(decoded.package)
    /\ decoded.package.adapter = Identity
    /\ decoded.package.format = request.format
    /\ decoded.package.source = request.source.source

\* An answer that was read to its end is refused for its length exactly when
\* it is longer than the limit: a program killed by the pipe the reader
\* dropped is not reported as a crash, and an answer of just the limit is
\* judged by its content.
LimitToldApart ==
  caller = "returned" /\ adapter # "absent" /\ exported # "Timeout" =>
    (exported = "ResponseLimit" <=> Printed > MaximumResponse)

\* What a call returns is true of the program it ran: an accepted package is
\* one whole answer to this request, and a length is refused for its length.
ResultIsTrue == AcceptedIsWhole /\ LimitToldApart

\* Streams a descendant keeps open after the program has ended.
Orphaned == adapter # "running" /\ held # {}

\* Whatever the program does, the call returns and every thread it started
\* ends, unless a descendant of the program holds a stream open for ever.
EveryThreadEnds ==
  \/ <>(caller = "returned" /\ writer # "writing" /\ open = {})
  \/ <>[]Orphaned
=============================================================================
