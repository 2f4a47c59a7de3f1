--------------------------- MODULE ServiceIngress ---------------------------
(***************************************************************************)
(* How work reaches the queue through the runtime service: submissions     *)
(* over the socket, over HTTP and through files, and the import of         *)
(* execution requests from a commitments source.                           *)
(*                                                                         *)
(* The service is one thread that takes the phases of an iteration in      *)
(* turn: socket, HTTP, file ingress, commitment import, supervisor pass.   *)
(* Clients run beside it and talk to it through connections and through    *)
(* the files under run/ingress/.  The service may die between any two      *)
(* steps; it is started again by `Restart=on-failure`.                     *)
(*                                                                         *)
(* Abstracted: the queue, to whether a job is in flight (QueueRuntime has  *)
(* the detail; enqueue_action is one step here), and a request's fields,   *)
(* to its job id and whether it names a kernel path.  Requests are well    *)
(* formed.                                                                 *)
(***************************************************************************)
EXTENDS Naturals

CONSTANTS
    Clients,      \* submissions, one client each
    Deliveries,   \* execution requests the commitments source lists
    JobOf,        \* the job id (envelope_input_hash) of each of them
    KernelKnown,  \* TRUE: the service has a kernel path of its own
    Prompt,       \* TRUE: the phases before the pass take less than the
                  \* five seconds a client waits for its reply
    MaxDeaths,   \* bound: deaths of the service
    NoSource      \* the service is handling nothing

Sources == Clients \cup Deliveries
Jobs == {JobOf[s] : s \in Sources}

ASSUME SourcesAssumption ==
    Clients \cap Deliveries = {} /\ NoSource \notin Clients \cup Deliveries
ASSUME JobOfAssumption == JobOf = [s \in Sources |-> JobOf[s]]
\* Without a kernel path of its own a service that imports ends with Err.
ASSUME ImportAssumption == Deliveries # {} => KernelKnown
ASSUME IngressFlagsAssumption == KernelKnown \in BOOLEAN /\ Prompt \in BOOLEAN
ASSUME BoundAssumption == MaxDeaths \in Nat

VARIABLES
    client,    \* where each submit_runtime_service_action is
    conns,     \* connections the service has not accepted
    requests,  \* run/ingress/requests/<id>.json: as staged by the client, or
               \* as rewritten by the service, without the kernel path
    receipts,  \* run/ingress/receipts/<id>.json
    markers,   \* imports/commitment_execution/<id>.json
    jobs,      \* the scheduler's account of each job
    phase, cur, todo, full,
               \* the service: phase or handler step, the source it handles, the
               \* request files it has listed, and whether the request it has
               \* read names a kernel path
    records,   \* history: queue records each source has made
    deaths

service == <<phase, cur, todo, full>>
ingressVars ==
    <<client, conns, requests, receipts, markers, jobs, service, records, deaths>>

Phases == {"socket", "http", "file", "import", "pass"}
Handler == {"write", "enqueue", "receipt"}

\* The phase whose request the service is handling.
Via == {"socket", "http", "file", "import"}

IngressInit ==
    /\ client = [c \in Clients |-> "idle"]
    /\ conns = {} /\ receipts = {} /\ markers = {}
    /\ requests = [c \in Clients |-> "absent"]
    /\ jobs = [j \in Jobs |-> "absent"]
    /\ phase = <<"down", "socket">> /\ cur = NoSource /\ todo = {} /\ full = FALSE
    /\ records = [s \in Sources |-> 0]
    /\ deaths = 0

-----------------------------------------------------------------------------
(* submit_runtime_service_action *)

Move(c, l) == client' = [client EXCEPT ![c] = l]

Up == phase[1] # "down"

\* Over HTTP when the client was given a URL, which takes a running service;
\* else over the socket when the service is reported running and has one, else
\* through a file.
Submit(c) ==
    /\ client[c] = "idle"
    /\ \/ Up /\ \E t \in {"socket", "http"} :
                  Move(c, t) /\ conns' = conns \cup {<<c, t>>}
       \/ Move(c, "stage") /\ UNCHANGED conns
    /\ UNCHANGED <<requests, receipts, markers, jobs, service, records, deaths>>

\* No reply in five seconds, or the connection is gone.  What the client wrote
\* stays with the service.  A socket client falls back to a file, under the same
\* request id; an HTTP client gives up.
GiveUp(c) ==
    /\ client[c] \in {"socket", "http"}
    /\ Prompt => phase[1] \in {"pass", "down"} \/ <<c, client[c]>> \notin conns
    /\ Move(c, IF client[c] = "socket" THEN "stage" ELSE "failed")
    /\ UNCHANGED <<conns, requests, receipts, markers, jobs, service, records,
                   deaths>>

Stage(c) ==
    /\ client[c] = "stage"
    /\ requests' = [requests EXCEPT ![c] = "staged"]
    /\ Move(c, "poll")
    /\ UNCHANGED <<conns, receipts, markers, jobs, service, records, deaths>>

\* The receipt, or after twenty-five polls an answer without one.
Poll(c) ==
    /\ client[c] = "poll"
    /\ \/ c \in receipts /\ Move(c, "accepted")
       \/ Move(c, "awaiting")
    /\ UNCHANGED <<conns, requests, receipts, markers, jobs, service, records,
                   deaths>>

-----------------------------------------------------------------------------
(* run_runtime_service_loop: the phases of an iteration. *)

\* The service starts, or starts again.
StartService ==
    /\ ~Up
    /\ phase' = <<"socket", "socket">>
    /\ UNCHANGED <<client, conns, requests, receipts, markers, jobs, cur, todo,
                   full, records, deaths>>

\* A connection is accepted and its request read, whether or not the client is
\* still there.
Accept(c) ==
    /\ phase[1] \in {"socket", "http"} /\ <<c, phase[1]>> \in conns
    /\ conns' = conns \ {<<c, phase[1]>>}
    /\ phase' = <<"write", phase[1]>> /\ cur' = c /\ full' = TRUE
    /\ UNCHANGED <<client, requests, receipts, markers, jobs, todo, records,
                   deaths>>

\* The phase ends when nobody is waiting.
SocketDone ==
    /\ phase[1] = "socket" /\ \A c \in Clients : <<c, "socket">> \notin conns
    /\ phase' = <<"http", "http">>
    /\ UNCHANGED <<client, conns, requests, receipts, markers, jobs, cur, todo,
                   full, records, deaths>>

\* Mutant: a file is taken up whether or not it has a receipt.
PendingRequestsAll == {c \in Clients : requests[c] # "absent"}

\* Mutant: only files in the form the client staged.
PendingRequestsStaged == {c \in Clients : requests[c] = "staged" /\ c \notin receipts}

\* collect_pending_runtime_ingress_requests: the request files without receipt.
PendingRequests == {c \in Clients : requests[c] # "absent" /\ c \notin receipts}

HttpDone ==
    /\ phase[1] = "http" /\ \A c \in Clients : <<c, "http">> \notin conns
    /\ phase' = <<"file", "file">> /\ todo' = PendingRequests
    /\ UNCHANGED <<client, conns, requests, receipts, markers, jobs, cur, full,
                   records, deaths>>

\* A listed file is read; without a kernel path from anywhere the request is
\* rejected, and stays for the next iteration.
TakeFile(c) ==
    /\ phase[1] = "file" /\ c \in todo
    /\ todo' = todo \ {c}
    /\ full' = (requests[c] = "staged")
    /\ IF full' \/ KernelKnown
       THEN phase' = <<"write", "file">> /\ cur' = c
       ELSE UNCHANGED <<phase, cur>>
    /\ UNCHANGED <<client, conns, requests, receipts, markers, jobs, records,
                   deaths>>

\* Mutant: the pass comes before the import and the requests.
FilesDonePassFirst ==
    /\ phase[1] = "file" /\ todo = {}
    /\ phase' = <<"pass", "pass">>
    /\ UNCHANGED <<client, conns, requests, receipts, markers, jobs, cur, todo,
                   full, records, deaths>>

FilesDone ==
    /\ phase[1] = "file" /\ todo = {}
    /\ phase' = <<"import", "import">>
    /\ UNCHANGED <<client, conns, requests, receipts, markers, jobs, cur, todo,
                   full, records, deaths>>

\* import_commitment_execution_requests: the next delivery without a marker.
TakeDelivery(d) ==
    /\ phase[1] = "import" /\ d \notin markers
    /\ phase' = <<"enqueue", "import">> /\ cur' = d
    /\ UNCHANGED <<client, conns, requests, receipts, markers, jobs, todo, full,
                   records, deaths>>

ImportDone ==
    /\ phase[1] = "import" /\ Deliveries \subseteq markers
    /\ phase' = <<"pass", "pass">>
    /\ UNCHANGED <<client, conns, requests, receipts, markers, jobs, cur, todo,
                   full, records, deaths>>

\* run_supervisor takes some of the jobs in flight to their end.
Pass ==
    /\ phase[1] = "pass"
    /\ \E S \in SUBSET {j \in Jobs : jobs[j] = "inflight"} :
         jobs' = [j \in Jobs |-> IF j \in S THEN "over" ELSE jobs[j]]
    /\ phase' = <<"socket", "socket">>
    /\ UNCHANGED <<client, conns, requests, receipts, markers, cur, todo, full,
                   records, deaths>>

-----------------------------------------------------------------------------
(* handle_runtime_service_request, "submit_action"; and the import of one      *)
(* delivery, which has no request file and a marker for a receipt.             *)

\* The request file is written, or rewritten, without the kernel path.
WriteRequest ==
    /\ phase[1] = "write"
    /\ requests' = [requests EXCEPT ![cur] = "received"]
    /\ phase' = <<"enqueue", phase[2]>>
    /\ UNCHANGED <<client, conns, receipts, markers, jobs, cur, todo, full,
                   records, deaths>>

\* enqueue_action answers for a job in flight from the record it has.
NeedsRecord(j) == jobs[j] # "inflight"

Enqueue ==
    /\ phase[1] = "enqueue"
    /\ IF NeedsRecord(JobOf[cur])
       THEN /\ jobs' = [jobs EXCEPT ![JobOf[cur]] = "inflight"]
            /\ records' = [records EXCEPT ![cur] = @ + 1]
       ELSE UNCHANGED <<jobs, records>>
    /\ phase' = <<"receipt", phase[2]>>
    /\ UNCHANGED <<client, conns, requests, receipts, markers, cur, todo, full,
                   deaths>>

\* The receipt (the marker) is written and the client, if it still waits, has
\* its reply.
WriteReceipt ==
    /\ phase[1] = "receipt"
    /\ IF phase[2] = "import"
       THEN markers' = markers \cup {cur} /\ UNCHANGED <<receipts, client>>
       ELSE /\ receipts' = receipts \cup {cur} /\ UNCHANGED markers
            /\ IF client[cur] = phase[2] THEN Move(cur, "accepted")
                                      ELSE UNCHANGED client
    /\ phase' = <<phase[2], phase[2]>> /\ cur' = NoSource /\ full' = FALSE
    /\ UNCHANGED <<conns, requests, jobs, todo, records, deaths>>

\* The service dies; the connections it had are reset.
Crash ==
    /\ Up /\ deaths < MaxDeaths
    /\ deaths' = deaths + 1
    /\ phase' = <<"down", "socket">> /\ cur' = NoSource /\ todo' = {} /\ full' = FALSE
    /\ conns' = {}
    /\ UNCHANGED <<client, requests, receipts, markers, jobs, records>>

-----------------------------------------------------------------------------
ServiceStep ==
    \/ StartService \/ SocketDone \/ HttpDone \/ FilesDone \/ ImportDone \/ Pass
    \/ \E c \in Clients : Accept(c) \/ TakeFile(c)
    \/ \E d \in Deliveries : TakeDelivery(d)
    \/ WriteRequest \/ Enqueue \/ WriteReceipt

ClientStep(c) == GiveUp(c) \/ Stage(c) \/ Poll(c)

IngressNext ==
    \/ ServiceStep \/ Crash
    \/ \E c \in Clients : Submit(c) \/ ClientStep(c)

IngressSpec == IngressInit /\ [][IngressNext]_ingressVars

\* The loop goes on, a dead service is restarted, and a submit command that has
\* begun goes on to its end.
IngressFairSpec ==
    /\ IngressSpec /\ WF_ingressVars(ServiceStep)
    /\ \A c \in Clients : WF_ingressVars(ClientStep(c))

-----------------------------------------------------------------------------
(* Properties. *)

\* Every file and process holds values of its kind.
IngressTypeOK ==
    /\ client \in [Clients -> {"idle", "socket", "http", "stage", "poll",
                               "accepted", "awaiting", "failed"}]
    /\ conns \subseteq Clients \X {"socket", "http"}
    /\ requests \in [Clients -> {"absent", "staged", "received"}]
    /\ receipts \subseteq Clients /\ markers \subseteq Deliveries
    /\ jobs \in [Jobs -> {"absent", "inflight", "over"}]
    /\ phase \in (Phases \cup Handler \cup {"down"}) \X (Via \cup {"pass"})
    /\ cur \in Sources \cup {NoSource} /\ todo \subseteq Clients
    /\ full \in BOOLEAN
    /\ records \in [Sources -> Nat] /\ deaths \in Nat

Promise == INSTANCE SubmitOnce WITH accepted <- receipts \cup markers

\* The ingress keeps the promise of SubmitOnce, with deaths of the service and
\* retries of the clients: no check ties a request to the record it made, only
\* the job in flight and the order of the phases (enqueue before receipt,
\* requests before the pass) do.
SubmissionsOnce == Promise!Spec

\* Whether the service handles source s, and whether client c waits in a connection
\* of kind t.
Handling(s) == phase[1] \in Handler /\ cur = s
Waits(c, t) == <<c, t>> \in conns

\* What the service handles.
WorkInv ==
    phase[1] \in Handler =>
        /\ phase[2] \in Via
        /\ IF phase[2] = "import" THEN cur \in Deliveries /\ phase[1] # "write"
                               ELSE cur \in Clients

\* Where the service is and the files it has listed.
PlaceInv ==
    /\ phase[1] \in Phases => phase[2] = phase[1]
    /\ ~Up => phase[2] = "socket" /\ conns = {}
    /\ phase[1] \in Handler =>
         /\ cur \notin receipts \cup markers /\ cur \notin todo
         /\ phase[1] # "write" /\ phase[2] # "import" => requests[cur] # "absent"
    /\ phase[2] # "file" => todo = {}
    /\ phase[1] = "pass" => Deliveries \subseteq markers
    /\ \A c \in todo : requests[c] # "absent" /\ c \notin receipts

\* A client waits in one connection, which it may have given up, and is handled from
\* that connection or from its file, never from both.
ClientInv(c) ==
    /\ client[c] = "idle" => requests[c] = "absent" /\ c \notin receipts /\ ~Handling(c)
    /\ Waits(c, "http") => client[c] \in {"http", "failed"} /\ requests[c] = "absent"
    /\ Waits(c, "socket") =>
         \/ client[c] = "socket" /\ requests[c] = "absent"
         \/ /\ client[c] \in {"stage", "poll", "awaiting"}
            /\ phase[2] \in {"pass", "socket"}
    /\ Waits(c, "socket") \/ Waits(c, "http") =>
         c \notin receipts /\ ~Handling(c) /\ c \notin todo

\* A source that has a record and no answer yet has its job in flight, and its request
\* file is taken up before the next pass.
RecordInv(s) ==
    /\ records[s] <= 1
    /\ records[s] > 0 /\ s \notin receipts \cup markers => jobs[JobOf[s]] = "inflight"
    /\ records[s] > 0 /\ s \in Clients =>
         /\ requests[s] # "absent"
         /\ phase[2] \in {"file", "import", "pass"} =>
              s \in receipts \/ s \in todo \/ Handling(s)

HasRecord(j) == \E s \in Sources : JobOf[s] = j /\ records[s] > 0

\* Prompt and KernelKnown.  The inductive invariant behind SubmissionsOnce.
IngressInv ==
    /\ PlaceInv
    /\ \A c \in Clients : ClientInv(c)
    /\ \A s \in Sources : RecordInv(s)
    /\ \A j \in Jobs : jobs[j] # "absent" => HasRecord(j)
    /\ phase[1] = "receipt" => HasRecord(JobOf[cur])

\* A submission that reached its request file gets its receipt in the end.
RequestsAccepted ==
    \A c \in Clients : (requests[c] # "absent") ~> (c \in receipts)

\* Every delivery of the commitments source is imported in the end.
DeliveriesImported == \A d \in Deliveries : <>(d \in markers)
=============================================================================
