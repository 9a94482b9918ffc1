------------------------------ MODULE Programs ------------------------------
(***************************************************************************)
(* The small programs of the repository, which share nothing.  A behaviour *)
(* runs one of them; the variables of the others stay Null.                *)
(***************************************************************************)
EXTENDS Integers, FiniteSets

CONSTANTS
    Null,
    Values, MaxLen,                        \* of Search
    MaxSize, MaxIters, Unroll, RandMax,    \* of Walk
    Groups, Room,                          \* of Submatches
    Den, MaxRows, MaxFlow, NumFlows,       \* of TraceGen
    Threads, MaxCalls,                     \* of Interpose
    Users, MaxLoads,                       \* of Netlink
    Client, Server, MTU, IpHdr, TcpHdr, Radix, SynOptions, DefaultMss,  \* of IpIp
    ChunkSize, MaxBody, PageSize, ZipSize, \* of HttpServer
    Iters, MsgSize, SizeBytes, BufSize, Window   \* of TrafficGen

VARIABLES
    program,
    len, array, target, start, end, result, prefetched, pc,
    size, cells, swapped, iters, cursor, reads, walking,
    prog, next, ptr, todo, step, fault,
    lib, captured, ovector, rc, printed, warned, matching,
    dist, written, draw, flow_size, generating,
    provided, loaded, ibv_handle, real, at, fn, got, calls, exited, reached, clobbered,
    module, registered, nl_sk, loads, user_at, inbox, oops, lost,
    outgoing, incoming, mss, opts, net, raw,
    want, request, last, serving, sent, wire, client,
    calling, left, moved, round, messages, asked, toServer, toClient, broken, connected, faulted

search_vars == <<len, array, target, start, end, result, prefetched, pc>>
walk_vars == <<size, cells, swapped, iters, cursor, reads, walking>>
cleanup_vars == <<prog, next, ptr, todo, step, fault>>
match_vars == <<lib, captured, ovector, rc, printed, warned, matching>>
trace_vars == <<dist, written, draw, flow_size, generating>>
wrapper_vars == <<provided, loaded, ibv_handle, real, at, fn, got, calls, exited, reached, clobbered>>
netlink_vars == <<module, registered, nl_sk, loads, user_at, inbox, oops, lost>>
ipip_vars == <<outgoing, incoming, mss, opts, net, raw>>
http_vars == <<want, request, last, serving, sent, wire, client>>
traffic_vars == <<calling, left, moved, round, messages, asked, toServer, toClient, broken,
                  connected, faulted>>
vars == <<program, search_vars, walk_vars, cleanup_vars, match_vars, trace_vars, wrapper_vars,
          netlink_vars, ipip_vars, http_vars, traffic_vars>>

search == INSTANCE Search
walk == INSTANCE Walk WITH array <- cells, i <- swapped, p <- cursor, at <- walking
cleanup == INSTANCE Cleanup
match == INSTANCE Submatches WITH at <- matching
trace == INSTANCE TraceGen WITH
    MaxSize <- MaxFlow, x <- draw, size <- flow_size, at <- generating
wrapper == INSTANCE Interpose
netlink == INSTANCE Netlink WITH at <- user_at, fault <- oops
ipip == INSTANCE IpIp
http == INSTANCE HttpServer WITH pc <- serving, at <- sent
traffic == INSTANCE TrafficGen WITH
    pc <- calling, i <- round, iters <- messages, size <- asked

ASSUME ProgramsAssumption ==
    /\ search!SearchAssumption /\ walk!WalkAssumption /\ ipip!IpIpAssumption /\ http!HttpAssumption
    /\ traffic!TrafficGenAssumption /\ trace!TraceGenAssumption
    /\ Groups \in Nat /\ Room \in Nat \ {0}
    /\ Null \notin {"lib", "real", "self"}
    /\ IsFiniteSet(Threads) /\ IsFiniteSet(Users)

NoSearch ==
    /\ len = Null /\ array = Null /\ target = Null /\ start = Null /\ end = Null
    /\ result = Null /\ prefetched = Null /\ pc = Null
NoWalk ==
    /\ size = Null /\ cells = Null /\ swapped = Null /\ iters = Null /\ cursor = Null
    /\ reads = Null /\ walking = Null
NoCleanup ==
    prog = Null /\ next = Null /\ ptr = Null /\ todo = Null /\ step = Null /\ fault = Null
NoMatcher ==
    /\ lib = Null /\ captured = Null /\ ovector = Null /\ rc = Null /\ printed = Null
    /\ warned = Null /\ matching = Null
NoTraceGen ==
    dist = Null /\ written = Null /\ draw = Null /\ flow_size = Null /\ generating = Null
NoWrappers ==
    /\ provided = Null /\ loaded = Null /\ ibv_handle = Null /\ real = Null /\ at = Null
    /\ fn = Null /\ got = Null /\ calls = Null /\ exited = Null /\ reached = Null
    /\ clobbered = Null
NoNetlink ==
    /\ module = Null /\ registered = Null /\ nl_sk = Null /\ loads = Null /\ user_at = Null
    /\ inbox = Null /\ oops = Null /\ lost = Null
NoTunnel ==
    /\ outgoing = Null /\ incoming = Null /\ mss = Null /\ opts = Null /\ net = Null
    /\ raw = Null
NoServer ==
    /\ want = Null /\ request = Null /\ last = Null /\ serving = Null /\ sent = Null
    /\ wire = Null /\ client = Null
NoTraffic ==
    /\ calling = Null /\ left = Null /\ moved = Null /\ round = Null /\ messages = Null
    /\ asked = Null /\ toServer = Null /\ toClient = Null /\ broken = Null
    /\ connected = Null /\ faulted = Null

Init ==
    /\ program \in {"binary_search", "mem_read_lat", "cleanup", "submatches", "trace_gen",
                    "interpose", "netlink", "ipip", "http_server", "simple_traffic_gen"}
    /\ IF program = "binary_search" THEN search!Init ELSE NoSearch
    /\ IF program = "mem_read_lat" THEN walk!Init ELSE NoWalk
    /\ IF program = "cleanup" THEN cleanup!Init ELSE NoCleanup
    /\ IF program = "submatches" THEN match!Init ELSE NoMatcher
    /\ IF program = "trace_gen" THEN trace!Init ELSE NoTraceGen
    /\ IF program = "interpose" THEN wrapper!Init ELSE NoWrappers
    /\ IF program = "netlink" THEN netlink!Init ELSE NoNetlink
    /\ IF program = "ipip" THEN ipip!Init ELSE NoTunnel
    /\ IF program = "http_server" THEN http!Init ELSE NoServer
    /\ IF program = "simple_traffic_gen" THEN traffic!Init ELSE NoTraffic

\* A program with one thread.
Sequential ==
    \/ /\ program = "binary_search" /\ search!Next
       /\ UNCHANGED <<walk_vars, cleanup_vars, match_vars,
                      trace_vars, wrapper_vars, netlink_vars, ipip_vars, http_vars, traffic_vars>>
    \/ /\ program = "mem_read_lat" /\ walk!Next
       /\ UNCHANGED <<search_vars, cleanup_vars, match_vars,
                      trace_vars, wrapper_vars, netlink_vars, ipip_vars, http_vars, traffic_vars>>
    \/ /\ program = "cleanup" /\ cleanup!Next
       /\ UNCHANGED <<search_vars, walk_vars, match_vars,
                      trace_vars, wrapper_vars, netlink_vars, ipip_vars, http_vars, traffic_vars>>
    \/ /\ program = "submatches" /\ match!Next
       /\ UNCHANGED <<search_vars, walk_vars, cleanup_vars,
                      trace_vars, wrapper_vars, netlink_vars, ipip_vars, http_vars, traffic_vars>>
    \/ /\ program = "trace_gen" /\ trace!Next
       /\ UNCHANGED <<search_vars, walk_vars, cleanup_vars,
                      match_vars, wrapper_vars, netlink_vars, ipip_vars, http_vars, traffic_vars>>

\* A step of one of the two programs, or of the connection between them.
Trafficking(A) ==
    /\ program = "simple_traffic_gen" /\ A
    /\ UNCHANGED <<search_vars, walk_vars, cleanup_vars, match_vars,
                   trace_vars, wrapper_vars, netlink_vars, ipip_vars, http_vars>>

Next ==
    /\ \/ Sequential
       \/ /\ program = "interpose" /\ wrapper!Next
          /\ UNCHANGED <<search_vars, walk_vars, cleanup_vars,
                         match_vars, trace_vars, netlink_vars, ipip_vars, http_vars, traffic_vars>>
       \/ /\ program = "netlink" /\ netlink!Next
          /\ UNCHANGED <<search_vars, walk_vars, cleanup_vars,
                         match_vars, trace_vars, wrapper_vars, ipip_vars, http_vars, traffic_vars>>
       \/ /\ program = "ipip" /\ ipip!Next
          /\ UNCHANGED <<search_vars, walk_vars, cleanup_vars, match_vars,
                         trace_vars, wrapper_vars, netlink_vars, http_vars, traffic_vars>>
       \/ /\ program = "http_server" /\ http!Next
          /\ UNCHANGED <<search_vars, walk_vars, cleanup_vars, match_vars,
                         trace_vars, wrapper_vars, netlink_vars, ipip_vars, traffic_vars>>
       \/ Trafficking(traffic!Next)
    /\ UNCHANGED program

\* A thread or a user that is in a call goes on; nobody has to begin one, and
\* nobody has to load the module.  The thread of a server runs; its client does
\* what it likes, but reads what it is sent while it stays.  The two programs of
\* simple-traffic-gen run, and connect returns.
Binding(t) ==
    /\ program = "interpose" /\ ~exited /\ wrapper!Bound(t)
    /\ UNCHANGED <<program, search_vars, walk_vars, cleanup_vars,
                   match_vars, trace_vars, netlink_vars, ipip_vars, http_vars, traffic_vars>>
Measuring(u) ==
    /\ program = "netlink" /\ ~oops /\ netlink!Measure(u)
    /\ UNCHANGED <<program, search_vars, walk_vars, cleanup_vars,
                   match_vars, trace_vars, wrapper_vars, ipip_vars, http_vars, traffic_vars>>
Serving ==
    /\ program = "http_server" /\ http!Thread
    /\ UNCHANGED <<program, search_vars, walk_vars, cleanup_vars, match_vars,
                   trace_vars, wrapper_vars, netlink_vars, ipip_vars, traffic_vars>>

Spec == Init /\ [][Next]_vars
FairSpec == Spec /\ WF_vars(Sequential /\ UNCHANGED program)
                 /\ \A t \in Threads : WF_vars(Binding(t))
                 /\ \A u \in Users : WF_vars(Measuring(u))
                 /\ WF_vars(Serving)
                 /\ WF_vars(Trafficking(traffic!Connect \/ traffic!ConnectFails) /\ UNCHANGED program)
                 /\ WF_vars(Trafficking(traffic!ClientMoves) /\ UNCHANGED program)
                 /\ WF_vars(Trafficking(traffic!ServerMoves) /\ UNCHANGED program)

-----------------------------------------------------------------------------
(* Properties.                                                             *)

\* Of binary-search-prefetch, see Search.
SearchCorrect ==
    program = "binary_search" => search!SearchCorrect /\ search!NextIsPrefetched

\* Of mem-read-lat, see Walk.
WalkIsInside == program = "mem_read_lat" => walk!WalkIsInside

\* Of the programs in Cleanup.
ReleasedOnce == program = "cleanup" => cleanup!ReleasedOnce

\* Of re2demo and pcredemo, see Submatches.
PrintedIsCaptured == program = "submatches" => match!PrintedIsCaptured

\* Of traffic-trace-gen, see TraceGen.
SizesFollowFile == program = "trace_gen" => trace!SizesFollowFile

\* Of run-interpose and rdma-monitor, see Interpose.
ReachesLibrary == program = "interpose" => wrapper!ReachesLibrary

\* Of netlink-latency, see Netlink.
AnsweredOnce == program = "netlink" => netlink!AnsweredOnce

\* Of ipip, see IpIp.
FitsMtu == program = "ipip" => ipip!FitsMtu

\* Of ipip, see IpIp.
SegmentsIntact == program = "ipip" => ipip!SegmentsIntact

\* Of py-http-server, see HttpServer.
AnswerIsFile == program = "http_server" => http!AnswerIsFile

\* Of simple-traffic-gen, see TrafficGen.
Framed == program = "simple_traffic_gen" => traffic!Framed

\* Of simple-traffic-gen, see TrafficGen.
MessageConserved == program = "simple_traffic_gen" => traffic!MessageConserved

\* Every program ends, and every call of a wrapper returns unless the library
\* was taken from it; a netlink user waits for ever only for an answer there
\* was no memory for, or in a kernel that has gone down.  The tunnel has no end.
\* A client that has sent all it wants gets an answer or the end of the
\* connection, and so does the thread of one that has left.  The client of
\* simple-traffic-gen ends, and so does its server once there is a connection,
\* however the connection breaks or the other process dies; without such a fault
\* both end in success.
Ended ==
    CASE program = "binary_search" -> pc = "done"
      [] program = "mem_read_lat" -> walking \in {"done", "wild"}
      [] program = "cleanup" -> step = "exit"
      [] program = "submatches" -> matching = "done"
      [] program = "trace_gen" -> generating \in {"done", "error"}
      [] program = "interpose" -> exited \/ clobbered \/ \A t \in Threads : at[t] = "idle"
      [] program = "netlink" -> oops \/ \A u \in Users :
             user_at[u] \in {"done", "failed"} \/ (user_at[u] = "recv" /\ u \in lost)
      [] program = "ipip" -> TRUE
      [] program = "http_server" -> client = "there" \/ serving \in {"closed", "died"}
      [] program = "simple_traffic_gen" ->
             /\ calling["client"] \in traffic!Ended
             /\ connected => calling["server"] \in traffic!Ended
             /\ faulted \/ \A s \in traffic!Sides : calling[s] = "done"
ProgramsEnd == <>[]Ended
=============================================================================
