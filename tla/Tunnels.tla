-------------------------------- MODULE Tunnels --------------------------------
(***************************************************************************)
(* The reconciler of the dev tunnels (tunnels.ts): one tunnel, the boxes   *)
(* of one user that can host it, its row, and the tunnel at the service.   *)
(*                                                                         *)
(* A tick reads every box, then remembers the tunnel for the boxes that    *)
(* host it, then looks at the row.  Each read of a box and each call to    *)
(* the service is an await.  Time passes in ticks of the loop.             *)
(***************************************************************************)
EXTENDS Naturals, FiniteSets

CONSTANTS HostBox,        \* the boxes
          NoBox,          \* no box
          GraceTicks,     \* TUNNEL_GRACE_MS
          MaxHosts,       \* bound: hosts that are started
          MaxTunnelTroubles \* bound: failures, deletions and changes of the login

ASSUME NoBoxAssumption == NoBox \notin HostBox
ASSUME GraceAssumption == GraceTicks \in Nat \ {0} /\ MaxHosts \in Nat /\ MaxTunnelTroubles \in Nat

VARIABLES
  \* The world.
  hosting,      \* "no", "new" when it began since the last tick, or "known"
  boxThere,     \* the boxes that are not deleted
  tunnelThere,  \* the service has the tunnel
  loggedIn,     \* the user has a Dev Tunnels login
  \* The row of the tunnel.
  rowBox,       \* box_id, NoBox without a row
  unservedFor,  \* the time since unserved_since; Served without one
  \* The tick.
  tickAt,       \* what the tick does
  boxRead,      \* what the tick has read of each box
  toServe,      \* the boxes that are read as hosts and not served yet
  servedNow,    \* servedIds has the tunnel
  serving,      \* the box that serve is about
  hosts, troubles,
  cutOff        \* the tunnel of a host that the tick has read was deleted (for the properties)

worldVars == <<hosting, boxThere, tunnelThere, loggedIn>>
tunnelRowVars == <<rowBox, unservedFor>>
tunnelTickVars == <<tickAt, boxRead, toServe, servedNow, serving>>
tunnelVars == <<worldVars, tunnelRowVars, tunnelTickVars, hosts, troubles, cutOff>>

Served == GraceTicks + 1

TunnelsTypeOK ==
  /\ hosting \in [HostBox -> {"no", "new", "known"}]
  /\ boxThere \subseteq HostBox /\ toServe \subseteq HostBox
  /\ {tunnelThere, loggedIn, servedNow, cutOff} \subseteq BOOLEAN
  /\ rowBox \in HostBox \cup {NoBox} /\ serving \in HostBox \cup {NoBox}
  /\ unservedFor \in 0..Served
  /\ tickAt \in {"off", "read", "serve", "get", "label", "remove"}
  /\ boxRead \in [HostBox -> {"unread", "hosts", "none", "unknown"}]
  /\ hosts \in 0..MaxHosts /\ troubles \in 0..MaxTunnelTroubles

TunnelsInit ==
  /\ hosting = [b \in HostBox |-> "no"]
  /\ boxThere = HostBox
  /\ tunnelThere = FALSE /\ loggedIn = TRUE
  /\ rowBox = NoBox /\ unservedFor = Served
  /\ tickAt = "off" /\ boxRead = [b \in HostBox |-> "none"]
  /\ toServe = {} /\ servedNow = FALSE /\ serving = NoBox
  /\ hosts = 0 /\ troubles = 0
  /\ cutOff = FALSE

Trouble == troubles < MaxTunnelTroubles /\ troubles' = troubles + 1

(***************************************************************************)
(* The boxes, the user and the service.                                    *)
(***************************************************************************)

\* A box runs devtunnel host, which makes the tunnel.
HostStarts(b) ==
  /\ b \in boxThere /\ hosting[b] = "no" /\ hosts < MaxHosts
  /\ hosts' = hosts + 1
  /\ hosting' = [hosting EXCEPT ![b] = "new"]
  /\ tunnelThere' = TRUE
  /\ UNCHANGED <<boxThere, loggedIn, tunnelRowVars, tunnelTickVars, troubles, cutOff>>

\* The process ends; the box can be deleted with it.
HostEnds(b) ==
  /\ hosting[b] # "no"
  /\ hosting' = [hosting EXCEPT ![b] = "no"]
  /\ UNCHANGED <<boxThere, tunnelThere, loggedIn, tunnelRowVars, tunnelTickVars, hosts, troubles, cutOff>>

BoxIsDeleted(b) ==
  /\ b \in boxThere
  /\ Trouble
  /\ boxThere' = boxThere \ {b}
  /\ hosting' = [hosting EXCEPT ![b] = "no"]
  /\ UNCHANGED <<tunnelThere, loggedIn, tunnelRowVars, tunnelTickVars, hosts, cutOff>>

UserDeletesTunnel ==
  /\ tunnelThere /\ Trouble
  /\ tunnelThere' = FALSE
  /\ hosting' = [b \in HostBox |-> "no"]
  /\ UNCHANGED <<boxThere, loggedIn, tunnelRowVars, tunnelTickVars, hosts, cutOff>>

LoginChanges ==
  /\ Trouble
  /\ loggedIn' = ~loggedIn
  /\ UNCHANGED <<hosting, boxThere, tunnelThere, tunnelRowVars, tunnelTickVars, hosts, cutOff>>

(***************************************************************************)
(* The tick.                                                               *)
(***************************************************************************)

\* The loop ticks, after an interval.  The boxes of a user without a token are not
\* read, and the row stays as it is.
TickBegins ==
  /\ tickAt = "off" /\ loggedIn
  /\ tickAt' = "read"
  /\ boxRead' = [b \in HostBox |-> IF b \in boxThere THEN "unread" ELSE "none"]
  /\ toServe' = {} /\ servedNow' = FALSE /\ serving' = NoBox
  /\ hosting' = [b \in HostBox |-> IF hosting[b] = "new" THEN "known" ELSE hosting[b]]
  /\ unservedFor' = IF unservedFor < GraceTicks THEN unservedFor + 1 ELSE unservedFor
  /\ UNCHANGED <<boxThere, tunnelThere, loggedIn, rowBox, hosts, troubles, cutOff>>

\* processReadings: the processes of a box, or null when they cannot be read.
BoxRead(b) ==
  /\ tickAt = "read" /\ boxRead[b] = "unread"
  /\ \/ /\ b \in boxThere
        /\ boxRead' = [boxRead EXCEPT ![b] = IF hosting[b] = "no" THEN "none" ELSE "hosts"]
        /\ toServe' = IF hosting[b] = "no" THEN toServe ELSE toServe \cup {b}
        /\ UNCHANGED troubles
     \/ /\ IF b \in boxThere THEN Trouble ELSE UNCHANGED troubles
        /\ boxRead' = [boxRead EXCEPT ![b] = "unknown"]
        /\ UNCHANGED toServe
  /\ UNCHANGED <<worldVars, tunnelRowVars, tickAt, servedNow, serving, hosts, cutOff>>

ReadingsAreIn == tickAt = "read" /\ \A b \in HostBox : boxRead[b] # "unread"

\* A mutant: a tunnel counts as served when its row is written.
ServeBegins_Late(b) ==
  /\ ReadingsAreIn /\ b \in toServe
  /\ toServe' = toServe \ {b}
  /\ servedNow' = (rowBox = b)
  /\ IF rowBox = b
       THEN unservedFor' = Served /\ UNCHANGED <<tickAt, serving>>
       ELSE tickAt' = "get" /\ serving' = b /\ UNCHANGED unservedFor
  /\ UNCHANGED <<worldVars, rowBox, boxRead, hosts, troubles, cutOff>>

\* serve: the row of the box that hosts the tunnel is marked as served, and any other
\* one needs the tunnel from the service.
ServeBegins(b) ==
  /\ ReadingsAreIn /\ b \in toServe
  /\ toServe' = toServe \ {b}
  /\ servedNow' = TRUE
  /\ IF rowBox = b
       THEN unservedFor' = Served /\ UNCHANGED <<tickAt, serving>>
       ELSE tickAt' = "get" /\ serving' = b /\ UNCHANGED unservedFor
  /\ UNCHANGED <<worldVars, rowBox, boxRead, hosts, troubles, cutOff>>

\* get fails, or knows no such tunnel: nothing is remembered.
GetAnswers ==
  /\ tickAt = "get"
  /\ \/ tunnelThere /\ tickAt' = "label" /\ UNCHANGED <<serving, troubles>>
     \/ /\ IF tunnelThere THEN Trouble ELSE UNCHANGED troubles
        /\ tickAt' = "read" /\ serving' = NoBox
  /\ UNCHANGED <<worldVars, tunnelRowVars, boxRead, toServe, servedNow, hosts, cutOff>>

\* setLabels has answered or failed, and remember writes the row.
LabelAnswers ==
  /\ tickAt = "label"
  /\ rowBox' = serving /\ unservedFor' = Served
  /\ tickAt' = "read" /\ serving' = NoBox
  /\ UNCHANGED <<worldVars, boxRead, toServe, servedNow, hosts, troubles, cutOff>>

\* The row at the end of the tick: kept, marked as unserved, or removed after the grace.
RowIsChecked ==
  /\ ReadingsAreIn /\ toServe = {}
  /\ LET kept == rowBox = NoBox \/ servedNow \/ boxRead[rowBox] = "unknown"
     IN  /\ unservedFor' = IF ~kept /\ unservedFor = Served THEN 0 ELSE unservedFor
         /\ tickAt' = IF ~kept /\ unservedFor = GraceTicks THEN "remove" ELSE "off"
  /\ UNCHANGED <<worldVars, rowBox, boxRead, toServe, servedNow, serving, hosts, troubles, cutOff>>

\* remove: a failure keeps the row, whether the service has deleted the tunnel or not.
RemoveAnswers ==
  /\ tickAt = "remove"
  /\ tickAt' = "off"
  /\ \/ /\ tunnelThere' = FALSE
        /\ cutOff' = (cutOff \/ \E b \in HostBox : hosting[b] = "known" /\ boxRead[b] # "unknown")
        /\ hosting' = [b \in HostBox |-> "no"]
        /\ \/ rowBox' = NoBox /\ unservedFor' = Served /\ UNCHANGED troubles
           \/ Trouble /\ UNCHANGED tunnelRowVars
     \/ Trouble /\ UNCHANGED <<tunnelThere, cutOff, hosting, tunnelRowVars>>
  /\ UNCHANGED <<boxThere, loggedIn, boxRead, toServe, servedNow, serving, hosts>>

TunnelsNext ==
  \/ \E b \in HostBox : HostStarts(b) \/ HostEnds(b) \/ BoxIsDeleted(b) \/ BoxRead(b) \/ ServeBegins(b)
  \/ UserDeletesTunnel \/ LoginChanges \/ TickBegins \/ GetAnswers \/ LabelAnswers
  \/ RowIsChecked \/ RemoveAnswers

TunnelsFairness ==
  /\ WF_tunnelVars(TickBegins)
  /\ \A b \in HostBox : WF_tunnelVars(BoxRead(b)) /\ WF_tunnelVars(ServeBegins(b))
  /\ WF_tunnelVars(GetAnswers) /\ WF_tunnelVars(LabelAnswers)
  /\ WF_tunnelVars(RowIsChecked) /\ WF_tunnelVars(RemoveAnswers)

TunnelsSpec == TunnelsInit /\ [][TunnelsNext]_tunnelVars /\ TunnelsFairness

(***************************************************************************)
(* Properties.                                                             *)
(***************************************************************************)

\* The tunnel of a host that ran before the tick, and whose box the tick could read, is
\* not deleted.  And between the ticks, the dashboard (forBox) lists the tunnel for no
\* box that the last tick has read without a host.
TunnelsFollowHosts ==
  /\ TunnelsTypeOK
  /\ ~cutOff
  /\ tickAt = "off" /\ rowBox # NoBox /\ unservedFor = Served => boxRead[rowBox] # "none" \/ servedNow

\* A tunnel that nobody hosts any more is forgotten, while the user is logged in.
UnservedTunnelGoes ==
  <>[](loggedIn /\ \A b \in HostBox : hosting[b] = "no") => <>(rowBox = NoBox)
=============================================================================
