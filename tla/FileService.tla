------------------------------ MODULE FileService ------------------------------
(***************************************************************************)
(* The file service of a box: the client in the orchestrator (files.ts),   *)
(* and the service in the box that it speaks to (files/src).               *)
(*                                                                         *)
(* One file of the workspace, which requests read, write, create and       *)
(* remove, and which the agent edits too.  The service is one thread: a    *)
(* request runs until its next await, and only the agent and the end of    *)
(* the process come between two calls on the file system.  A hash stands   *)
(* for the content that it is of.                                          *)
(***************************************************************************)
EXTENDS Naturals, FiniteSets, Sequences

CONSTANTS Request,       \* the requests of the orchestrator
          MaxLinks,   \* bound: connections to the service
          MaxAgentEdits, \* bound: what the agent does to the file
          MaxTimeouts    \* bound: requests that take too long

NoRequest == <<"no request">>

ASSUME FileAssumption == /\ NoRequest \notin Request
                         /\ MaxLinks \in Nat /\ MaxAgentEdits \in Nat /\ MaxTimeouts \in Nat

VARIABLES
  \* The box.
  content,     \* what the file holds, NoFile without one
  stamp,       \* its inode, size and time
  temps,       \* the requests with a temp file
  \* The connection.
  link,        \* "none", "opening", "open" or "ended" before its close event
  links,
  \* The requests.
  wish,        \* what each request is for
  cond,        \* the content that a write expects
  reached,     \* how far it is, in the client
  retries,     \* it has run once more
  served,      \* how far it is, in the service
  looked,      \* what the service looked at first, as a version
  worksFor,    \* the request that the service works on
  replyTo,     \* its reply, when it is on its way, and then its outcome
  agentEdits, timeouts,
  \* For the properties.
  heldSince,   \* what the file has held since each request began
  placed,      \* the requests whose content was put in place
  blind,       \* the agent edited the file after the last look of a write, before its rename
  overwritten, \* a request has replaced a content that it did not expect
  killed       \* the service has ended

heldVars == <<content, stamp, temps>>
linkVars == <<link, links>>
requestVars == <<wish, cond, reached, retries>>
serviceVars == <<served, looked, worksFor>>
boundVars == <<agentEdits, timeouts>>
ghostVars == <<heldSince, placed, blind, overwritten, killed>>
fileServiceVars == <<heldVars, linkVars, requestVars, serviceVars, replyTo, boundVars, ghostVars>>

NoFile == <<>>
Original == <<"original">>
TextOf(r) == <<"request", r>>
AgentText == <<"agent">>
Contents == {NoFile, Original, AgentText} \cup {TextOf(r) : r \in Request}
Reading == {"read"}
Wish == {"read", "write", "writeNew", "create", "remove"}

FileTypeOK ==
  /\ content \in Contents
  /\ stamp \in Nat
  /\ temps \subseteq Request
  /\ link \in {"none", "opening", "open", "ended"} /\ links \in 0..MaxLinks
  /\ wish \in [Request -> Wish \cup {"none"}]
  /\ cond \in [Request -> Contents]
  /\ reached \in [Request -> {"new", "connects", "sent", "again", "done"}]
  /\ retries \subseteq Request
  /\ served \in [Request -> {"no", "head", "body", "looks", "hashes", "looksAgain", "renames", "replied"}]
  /\ worksFor \in Request \cup {NoRequest}
  /\ looked \in [Request -> Nat]
  /\ agentEdits \in 0..MaxAgentEdits /\ timeouts \in 0..MaxTimeouts

FileInit ==
  /\ content \in {NoFile, Original}
  /\ stamp = 0 /\ temps = {}
  /\ link = "none" /\ links = 0
  /\ wish = [r \in Request |-> "none"] /\ cond = [r \in Request |-> NoFile]
  /\ reached = [r \in Request |-> "new"] /\ retries = {}
  /\ served = [r \in Request |-> "no"] /\ looked = [r \in Request |-> 0]
  /\ worksFor = NoRequest
  /\ replyTo = [r \in Request |-> "none"]
  /\ agentEdits = 0 /\ timeouts = 0
  /\ heldSince = [r \in Request |-> {}] /\ placed = {}
  /\ blind = FALSE /\ overwritten = FALSE /\ killed = FALSE

(***************************************************************************)
(* The client.                                                             *)
(***************************************************************************)

\* A request that is made: a write names the content that its reader was shown, the
\* original or what an earlier read of this page got.
RequestBegins(r, o) ==
  /\ reached[r] = "new"
  /\ wish' = [wish EXCEPT ![r] = o]
  /\ \E c \in IF o = "write" THEN {Original, content} \ {NoFile} ELSE {NoFile} : cond' = [cond EXCEPT ![r] = c]
  /\ reached' = [reached EXCEPT ![r] = "connects"]
  /\ heldSince' = [heldSince EXCEPT ![r] = {content}]
  /\ UNCHANGED <<heldVars, linkVars, retries, serviceVars, replyTo, boundVars,
                 placed, blind, overwritten, killed>>

\* connection: an open session is used, and requests that come together open one.
SessionOpens ==
  /\ link \in {"none", "ended"}
  /\ \E r \in Request : reached[r] \in {"connects", "again"}
  /\ links < MaxLinks
  /\ link' = "opening" /\ links' = links + 1
  /\ UNCHANGED <<heldVars, requestVars, serviceVars, replyTo, boundVars, ghostVars>>

\* open: the exec runs, or the spawn fails and every request that waits for it with it.
SessionIsOpen ==
  /\ link = "opening"
  /\ \/ link' = "open" /\ UNCHANGED <<reached, replyTo>>
     \/ /\ link' = "none"
        /\ LET waiting == {r \in Request : reached[r] \in {"connects", "again"}}
           IN  /\ reached' = [r \in Request |-> IF r \in waiting THEN "done" ELSE reached[r]]
               /\ replyTo' = [r \in Request |-> IF r \in waiting THEN "failed" ELSE replyTo[r]]
  /\ UNCHANGED <<heldVars, links, wish, cond, retries, serviceVars, boundVars, ghostVars>>

\* send: the head of the request is on its way.
RequestIsSent(r) ==
  /\ link = "open" /\ reached[r] \in {"connects", "again"}
  /\ reached' = [reached EXCEPT ![r] = "sent"]
  /\ served' = [served EXCEPT ![r] = "head"]
  /\ UNCHANGED <<heldVars, linkVars, wish, cond, retries, looked, worksFor, replyTo, boundVars, ghostVars>>

\* The reply arrives: the outcome of the request.
ReplyArrives(r) ==
  /\ reached[r] = "sent" /\ served[r] = "replied"
  /\ reached' = [reached EXCEPT ![r] = "done"]
  /\ served' = [served EXCEPT ![r] = "no"]
  /\ UNCHANGED <<heldVars, linkVars, wish, cond, retries, looked, worksFor, replyTo, boundVars, ghostVars>>

\* No reply in time: the stream is destroyed, which ends a body that still flows.
RequestTimesOut(r) ==
  /\ reached[r] = "sent" /\ timeouts < MaxTimeouts
  /\ timeouts' = timeouts + 1
  /\ reached' = [reached EXCEPT ![r] = "done"]
  /\ replyTo' = [replyTo EXCEPT ![r] = "lost"]
  /\ IF served[r] \in {"head", "body", "replied"}
       THEN served' = [served EXCEPT ![r] = "no"] /\ temps' = temps \ {r}
       ELSE UNCHANGED <<served, temps>>
  /\ UNCHANGED <<content, stamp, linkVars, wish, cond, retries, looked, worksFor, agentEdits, ghostVars>>

\* The connection ends, with the process: a read runs once more, any other request
\* fails, whether it took effect or not.
SessionEnds ==
  /\ link = "open"
  /\ link' = "ended"
  /\ LET cut == {r \in Request : reached[r] = "sent"}
         again == {r \in cut : wish[r] \in Reading /\ r \notin retries}
     IN  /\ reached' = [r \in Request |-> IF r \in again THEN "again" ELSE IF r \in cut THEN "done" ELSE reached[r]]
         /\ replyTo' = [r \in Request |-> IF r \in cut THEN (IF r \in again THEN "none" ELSE "lost") ELSE replyTo[r]]
         /\ retries' = retries \cup again
  /\ served' = [r \in Request |-> "no"] /\ worksFor' = NoRequest
  /\ killed' = TRUE
  /\ UNCHANGED <<heldVars, links, wish, cond, looked, boundVars, heldSince, placed, blind, overwritten>>

(***************************************************************************)
(* The service.                                                            *)
(***************************************************************************)

ServiceIsFree == link = "open" /\ worksFor = NoRequest
Replies(r, reply) ==
  /\ served' = [served EXCEPT ![r] = "replied"]
  /\ replyTo' = [replyTo EXCEPT ![r] = reply]

\* What the file holds is new.
Becomes(c) ==
  /\ content' = c /\ stamp' = stamp + 1
  /\ heldSince' = [r \in Request |-> heldSince[r] \cup {c}]

\* list, stat, read and readStream: a read is one look.
ReadIsServed(r) ==
  /\ ServiceIsFree /\ served[r] = "head" /\ wish[r] = "read"
  /\ Replies(r, IF content = NoFile THEN "refused" ELSE "ok")
  /\ cond' = [cond EXCEPT ![r] = content]
  /\ UNCHANGED <<heldVars, linkVars, wish, reached, retries, looked, worksFor, boundVars, ghostVars>>

\* removeFile.
RemoveIsServed(r) ==
  /\ ServiceIsFree /\ served[r] = "head" /\ wish[r] = "remove"
  /\ Replies(r, IF content = NoFile THEN "refused" ELSE "ok")
  /\ IF content = NoFile THEN UNCHANGED <<content, stamp, heldSince>> ELSE Becomes(NoFile)
  /\ UNCHANGED <<temps, linkVars, requestVars, looked, worksFor, boundVars, placed, blind, overwritten, killed>>

\* streamToTemp: the body goes into a temp file of its own.
BodyBegins(r) ==
  /\ ServiceIsFree /\ served[r] = "head" /\ wish[r] \in {"write", "writeNew", "create"}
  /\ served' = [served EXCEPT ![r] = "body"]
  /\ temps' = temps \cup {r}
  /\ UNCHANGED <<content, stamp, linkVars, requestVars, looked, worksFor, replyTo, boundVars, ghostVars>>

\* The body is complete, and the service works on the request until it has replied.
BodyEnds(r) ==
  /\ ServiceIsFree /\ served[r] = "body"
  /\ worksFor' = r
  /\ served' = [served EXCEPT ![r] = "looks"]
  /\ UNCHANGED <<heldVars, linkVars, requestVars, looked, replyTo, boundVars, ghostVars>>

LetsGo(r) == worksFor' = NoRequest /\ temps' = temps \ {r}

\* A reply to nobody, for a request that has timed out.
Concludes(r, reply) ==
  /\ LetsGo(r)
  /\ IF reached[r] = "sent"
       THEN Replies(r, reply)
       ELSE served' = [served EXCEPT ![r] = "no"] /\ UNCHANGED replyTo

\* writeFile for a new file, and createUnderFreeName: a link puts the content in place.
\* It fails when there is a file; a create then takes another name.
LinkIsMade(r) ==
  /\ worksFor = r /\ served[r] = "looks" /\ wish[r] \in {"writeNew", "create"}
  /\ IF content = NoFile
       THEN /\ Becomes(TextOf(r)) /\ placed' = placed \cup {r}
            /\ Concludes(r, "ok")
       ELSE /\ Concludes(r, IF wish[r] = "create" THEN "ok" ELSE "refused")
            /\ UNCHANGED <<content, stamp, heldSince, placed>>
  /\ UNCHANGED <<linkVars, requestVars, looked, boundVars, blind, overwritten, killed>>

\* writeFile: the stats of the file, then its hash, then its stats again.
WriteLooks(r) ==
  /\ worksFor = r /\ served[r] = "looks" /\ wish[r] = "write"
  /\ looked' = [looked EXCEPT ![r] = stamp]
  /\ served' = [served EXCEPT ![r] = "hashes"]
  /\ UNCHANGED <<heldVars, linkVars, requestVars, worksFor, replyTo, boundVars, ghostVars>>

WriteHashes(r) ==
  /\ worksFor = r /\ served[r] = "hashes"
  /\ IF content # cond[r]
       THEN Concludes(r, "refused")
       ELSE served' = [served EXCEPT ![r] = "looksAgain"] /\ UNCHANGED <<temps, worksFor, replyTo>>
  /\ UNCHANGED <<content, stamp, linkVars, requestVars, looked, boundVars, ghostVars>>

\* A mutant: the stats are not compared.
WriteLooksAgain_Trusts(r) ==
  /\ worksFor = r /\ served[r] = "looksAgain"
  /\ served' = [served EXCEPT ![r] = "renames"]
  /\ blind' = FALSE
  /\ UNCHANGED <<heldVars, linkVars, requestVars, looked, worksFor, replyTo, boundVars,
                 heldSince, placed, overwritten, killed>>

WriteLooksAgain(r) ==
  /\ worksFor = r /\ served[r] = "looksAgain"
  /\ IF stamp # looked[r] \/ content = NoFile
       THEN Concludes(r, "refused") /\ UNCHANGED blind
       ELSE served' = [served EXCEPT ![r] = "renames"] /\ blind' = FALSE /\ UNCHANGED <<temps, worksFor, replyTo>>
  /\ UNCHANGED <<content, stamp, linkVars, requestVars, looked, boundVars,
                 heldSince, placed, overwritten, killed>>

WriteRenames(r) ==
  /\ worksFor = r /\ served[r] = "renames"
  /\ Becomes(TextOf(r)) /\ placed' = placed \cup {r}
  /\ overwritten' = (overwritten \/ (content # cond[r] /\ ~blind))
  /\ Concludes(r, "ok")
  /\ UNCHANGED <<linkVars, requestVars, looked, boundVars, blind, killed>>

(***************************************************************************)
(* The agent.                                                              *)
(***************************************************************************)

AgentEdits ==
  /\ agentEdits < MaxAgentEdits
  /\ agentEdits' = agentEdits + 1
  /\ \E c \in {NoFile, Original, AgentText} \ {content} : Becomes(c)
  /\ blind' = TRUE
  /\ UNCHANGED <<temps, linkVars, requestVars, serviceVars, replyTo, timeouts, placed, overwritten, killed>>

FileNext ==
  \/ SessionOpens \/ SessionIsOpen \/ SessionEnds \/ AgentEdits
  \/ \E r \in Request :
       \/ \E o \in Wish : RequestBegins(r, o)
       \/ RequestIsSent(r) \/ ReplyArrives(r) \/ RequestTimesOut(r)
       \/ ReadIsServed(r) \/ RemoveIsServed(r) \/ BodyBegins(r) \/ BodyEnds(r) \/ LinkIsMade(r)
       \/ WriteLooks(r) \/ WriteHashes(r) \/ WriteLooksAgain(r) \/ WriteRenames(r)

FileSpec == FileInit /\ [][FileNext]_fileServiceVars

(***************************************************************************)
(* Properties.                                                             *)
(***************************************************************************)

IsTold(r, reply) == reached[r] = "done" /\ replyTo[r] = reply

\* A write replaces only what its reader was shown, unless the agent edits the file
\* between the last look and the rename.  A write that is told a conflict has not
\* changed the file, whatever happened to its connection.  A read returns what the
\* file has held since the request.  And no temp file stays, unless the service ends.
FilesAreSafe ==
  /\ FileTypeOK
  /\ ~overwritten
  /\ \A r \in Request :
       /\ IsTold(r, "refused") => r \notin placed
       /\ IsTold(r, "ok") /\ wish[r] = "write" => r \in placed
       /\ IsTold(r, "ok") /\ wish[r] = "read" => cond[r] \in heldSince[r]
  /\ temps # {} => killed \/ \E r \in temps : served[r] # "no"
=============================================================================
