------------------------------- MODULE Assets -------------------------------
(***************************************************************************)
(* The files that the server has in its program (embed.FS), the entity tags*)
(* it gives them, and the browsers that keep a file with its tag over      *)
(* restarts of the server and deploys of another build of it.              *)
(*                                                                         *)
(* A file's contents are known by the build they are part of.  A browser   *)
(* asks with or without the tag it has, whether or not the hour is over    *)
(* that it may use the file for without asking.  The map etagCache has no  *)
(* lock: when one handler writes to it while another one uses it, the Go   *)
(* runtime may end the process.                                            *)
(***************************************************************************)
EXTENDS Naturals

CONSTANTS
  Browsers, Files,
  MaxBuild, MaxClock, MaxRun  \* bounds: builds deployed, seconds, starts

ASSUME AssetsAssumption ==
  /\ Files # {}
  /\ MaxBuild \in Nat \ {0} /\ MaxClock \in Nat /\ MaxRun \in Nat

VARIABLES
  run,        \* how often the server was started; 0 before the first time
  up,         \* the process runs
  build,      \* the build that is installed
  clock,      \* the seconds of the machine's clock
  version,    \* when the process was started
  etagCache,  \* file -> its tag, NoTag when it has none
  request,    \* browser -> the state of its request's handler
  cached      \* browser -> file -> what it keeps

serverVars == <<run, up, version>>
assetsVars == <<serverVars, build, clock, etagCache, request, cached>>

NoTag == <<>>
Tags == Files \X (0 .. MaxClock) \cup {NoTag}
Nothing == [tag |-> NoTag, content |-> 0]
Idle == [pc |-> "none", file |-> CHOOSE f \in Files : TRUE, match |-> NoTag, tag |-> NoTag]

AssetsTypeOK ==
  /\ run \in 0 .. MaxRun /\ up \in BOOLEAN
  /\ build \in 1 .. MaxBuild /\ clock \in 0 .. MaxClock /\ version \in 0 .. clock
  /\ etagCache \in [Files -> Tags]
  /\ request \in [Browsers -> [pc : {"none", "lookup", "insert", "serve"}, file : Files,
                               match : Tags, tag : Tags]]
  /\ cached \in [Browsers -> [Files -> [tag : Tags, content : 0 .. build]]]
  /\ \A b \in Browsers : request[b].pc # "none" => up

AssetsInit ==
  /\ run = 0 /\ up = FALSE /\ build = 1 /\ clock = 0 /\ version = 0
  /\ etagCache = [f \in Files |-> NoTag]
  /\ request = [b \in Browsers |-> Idle]
  /\ cached = [b \in Browsers |-> [f \in Files |-> Nothing]]

-----------------------------------------------------------------------------
(* New, which mainHandler is called by: an empty map, and the second of the*)
(* start.                                                                  *)
Start ==
  /\ ~up /\ run < MaxRun
  /\ up' = TRUE /\ run' = run + 1 /\ version' = clock
  /\ etagCache' = [f \in Files |-> NoTag]
  /\ UNCHANGED <<build, clock, request, cached>>

Down ==
  /\ up' = FALSE /\ request' = [b \in Browsers |-> Idle]
  /\ UNCHANGED <<run, version, build, clock, etagCache, cached>>

Stop == up /\ Down

(* Another build takes the old one's place, which takes a second or more.  *)
Deploy ==
  /\ ~up /\ build < MaxBuild /\ clock < MaxClock
  /\ build' = build + 1 /\ clock' = clock + 1
  /\ UNCHANGED <<serverVars, etagCache, request, cached>>

(* The clock does not go back.                                             *)
ClockTicks ==
  /\ clock < MaxClock /\ clock' = clock + 1
  /\ UNCHANGED <<serverVars, build, etagCache, request, cached>>

-----------------------------------------------------------------------------
Etag(f) == <<f, version>>

Ask(b) ==
  /\ up /\ request[b].pc = "none"
  /\ \E f \in Files : \E match \in {NoTag, cached[b][f].tag} :
       request' = [request EXCEPT ![b] = [pc |-> "lookup", file |-> f,
                                          match |-> match, tag |-> NoTag]]
  /\ UNCHANGED <<serverVars, build, clock, etagCache, cached>>

Matches(b, tag) == tag # NoTag /\ request[b].match = tag

(* The handler looks its file's tag up: 304 if the browser has named it.   *)
Lookup_AnyTag(b) ==
  LET tag == etagCache[request[b].file]
  IN  /\ request[b].pc = "lookup"
      /\ request' = [request EXCEPT ![b] =
           IF tag # NoTag /\ request[b].match # NoTag THEN Idle
           ELSE [@ EXCEPT !.pc = IF tag = NoTag THEN "insert" ELSE "serve", !.tag = tag]]
      /\ UNCHANGED <<serverVars, build, clock, etagCache, cached>>
Lookup(b) ==
  LET tag == etagCache[request[b].file]
  IN  /\ request[b].pc = "lookup"
      /\ request' = [request EXCEPT ![b] =
           IF Matches(b, tag) THEN Idle
           ELSE [@ EXCEPT !.pc = IF tag = NoTag THEN "insert" ELSE "serve", !.tag = tag]]
      /\ UNCHANGED <<serverVars, build, clock, etagCache, cached>>

(* The first request for a file since the start enters its tag.            *)
Insert(b) ==
  LET f == request[b].file
  IN  /\ request[b].pc = "insert"
      /\ etagCache' = [etagCache EXCEPT ![f] = Etag(f)]
      /\ request' = [request EXCEPT ![b].pc = "serve", ![b].tag = Etag(f)]
      /\ UNCHANGED <<serverVars, build, clock, cached>>

(* http.FileServer compares the tags, too, and sends the file otherwise.   *)
Serve(b) ==
  LET f == request[b].file
  IN  /\ request[b].pc = "serve"
      /\ request' = [request EXCEPT ![b] = Idle]
      /\ IF Matches(b, request[b].tag) THEN UNCHANGED cached
         ELSE cached' = [cached EXCEPT ![b][f] =
                [tag |-> request[b].tag, content |-> build]]
      /\ UNCHANGED <<serverVars, build, clock, etagCache>>

(* One handler writes to the map while another reads or writes it.         *)
Crash ==
  /\ \E a, b \in Browsers :
       a # b /\ request[a].pc = "insert" /\ request[b].pc \in {"lookup", "insert"}
  /\ Down

Handle(b) == Lookup(b) \/ Insert(b) \/ Serve(b)

AssetsNext ==
  \/ Start \/ Stop \/ Deploy \/ ClockTicks \/ Crash
  \/ \E b \in Browsers : Ask(b) \/ Handle(b)

AssetsSpec == AssetsInit /\ [][AssetsNext]_assetsVars

-----------------------------------------------------------------------------
(* "Not modified" is true: who is told so has the file of the build that   *)
(* runs, whatever restarts, deploys and crashes lie between the two        *)
(* (http.go:122, 135-147).                                                 *)
NotModified(b) ==
  /\ request[b].pc # "none" /\ request'[b].pc = "none" /\ up'
  /\ cached' = cached /\ request[b].match # NoTag

NotModifiedIsTrue ==
  [][\A b \in Browsers : NotModified(b) => cached[b][request[b].file].content = build]_assetsVars
=============================================================================
