-------------------------------- MODULE Feed ---------------------------------
(***************************************************************************)
(* The event feed of the dashboard (EventFeed.tsx, EventRow.tsx,           *)
(* JsonTree.tsx) and the card of the most common type (useEventMetrics.ts, *)
(* MetricsRow.tsx), while events come in at the top and go out at the      *)
(* bottom.                                                                 *)
(*                                                                         *)
(* React keeps the state of a row or node for as long as its key is        *)
(* rendered at its place in the tree, gives it to whatever has that key    *)
(* next, and drops it when the key is gone.                                *)
(***************************************************************************)
EXTENDS Integers, Sequences, FiniteSets, SequencesExt

CONSTANTS
  Id,          \* event_id, chosen by the sender and not unique
  Type,        \* event_type
  Payload,     \* paths of the objects and arrays in a payload; << >> is all of it
  MaxEvents,   \* LIVE_BUFFER_SIZE
  MaxReceived  \* bound: events received

ASSUME FeedAssumption ==
  /\ Payload \subseteq Seq(Nat)
  /\ << >> \in Payload /\ \A p \in Payload : p # << >> => Front(p) \in Payload
  /\ MaxEvents \in Nat \ {0} /\ MaxReceived \in Nat

VARIABLES
  events,          \* the buffer, newest first: [id, type, n]
  totalReceived,   \* which also numbers the events, like uidSeqRef
  rows,            \* rows[k]: the state of the EventRow with key k
  inspected        \* history: the events whose payload the user has on display

feedVars == <<events, totalReceived, rows, inspected>>

\* Rows are keyed by the event's own id.
KeyOfMutant(event) == event.id
\* The key of a row is the uid, `${event_id}-${now}-${n}`; the time is left out.
KeyOf(event) == <<event.id, event.n>>

\* A row that is new, or whose payload was hidden: no node is mounted.
Hidden == [expanded |-> FALSE, open |-> {}]

\* A payload that was just mounted: the root is open, nothing below it is.
Unfolded == [expanded |-> TRUE, open |-> {<< >>}]

\* The nodes that are mounted: those below open ones only.
Mounted(row) ==
  {p \in Payload : row.expanded /\ \A k \in 0 .. Len(p) - 1 : SubSeq(p, 1, k) \in row.open}

FeedInit ==
  /\ events = << >>
  /\ totalReceived = 0
  /\ rows = [k \in {} |-> Hidden]
  /\ inspected = {}

-----------------------------------------------------------------------------

Cut(s) == SubSeq(s, 1, IF Len(s) > MaxEvents THEN MaxEvents ELSE Len(s))

\* An event is prepended, the buffer cut, and the rows rendered.
Arrives(id, type) ==
  /\ totalReceived < MaxReceived
  /\ totalReceived' = totalReceived + 1
  /\ events' = Cut(<<[id |-> id, type |-> type, n |-> totalReceived + 1]>> \o events)
  /\ rows' = [k \in {KeyOf(event) : event \in Range(events')} |->
                IF k \in DOMAIN rows THEN rows[k] ELSE Hidden]
  /\ inspected' = inspected \cap {event.n : event \in Range(events')}

\* "Inspect payload" and "Hide payload".
ToggleRow(event) ==
  LET row == rows[KeyOf(event)]
  IN  /\ rows' = [rows EXCEPT ![KeyOf(event)] = IF row.expanded THEN Hidden ELSE Unfolded]
      /\ inspected' = IF event.n \in inspected THEN inspected \ {event.n}
                                               ELSE inspected \cup {event.n}
      /\ UNCHANGED <<events, totalReceived>>

\* The triangle of a JsonNode. Closing it unmounts the nodes below, and with
\* them what they had open.
ToggleNode(event, p) ==
  LET row == rows[KeyOf(event)]
  IN  /\ p \in Mounted(row)
      /\ rows' = [rows EXCEPT ![KeyOf(event)].open =
                    IF p \in row.open THEN {q \in row.open : ~IsPrefix(p, q)}
                                      ELSE row.open \cup {p}]
      /\ UNCHANGED <<events, totalReceived, inspected>>

FeedNext ==
  \/ \E id \in Id, type \in Type : Arrives(id, type)
  \/ \E event \in Range(events) :
       \/ ToggleRow(event)
       \/ \E p \in Payload : ToggleNode(event, p)

FeedSpec == FeedInit /\ [][FeedNext]_feedVars

-----------------------------------------------------------------------------
(* mostCommon: a map of counts, whose keys stand in the order in which the *)
(* loop over the buffer first met them, and a scan for the greatest.       *)

Count(type) == Cardinality({i \in DOMAIN events : events[i].type = type})
FirstMet(i) == \A j \in 1 .. i - 1 : events[j].type # events[i].type
NoType == [type |-> "none", count |-> 0]

\* A later type that is as frequent replaces the best one.
MostCommonMutant ==
  LET best[i \in 0 .. Len(events)] ==
        IF i = 0 THEN NoType
        ELSE IF FirstMet(i) /\ Count(events[i].type) >= best[i - 1].count
        THEN [type |-> events[i].type, count |-> Count(events[i].type)]
        ELSE best[i - 1]
  IN  best[Len(events)]

MostCommon ==
  LET best[i \in 0 .. Len(events)] ==
        IF i = 0 THEN NoType
        ELSE IF FirstMet(i) /\ Count(events[i].type) > best[i - 1].count
        THEN [type |-> events[i].type, count |-> Count(events[i].type)]
        ELSE best[i - 1]
  IN  best[Len(events)]

\* The hint of the card.
InLiveBuffer == MostCommon.count > 0

-----------------------------------------------------------------------------
(* Properties.                                                             *)

\* A payload is on display exactly if the user has opened it for that event: rows
\* that move down, and events with an id that was seen before, change nothing.
InspectionFollowsEvent ==
  \A event \in Range(events) :
    rows[KeyOf(event)].expanded <=> event.n \in inspected

\* A node that is open is on display: hiding a payload or closing a node leaves
\* nothing open that would come back unfolded.
OpenIsMounted == \A k \in DOMAIN rows : rows[k].open \subseteq Mounted(rows[k])

\* "Most Common Event Type ... in live buffer": no type is more frequent, and of
\* those that are as frequent it is the one that came last.
MostCommonTrue ==
  /\ InLiveBuffer <=> totalReceived > 0
  /\ InLiveBuffer =>
       LET newest(type) == CHOOSE i \in DOMAIN events : events[i].type = type /\ FirstMet(i)
       IN  /\ MostCommon.count = Count(MostCommon.type)
           /\ \A type \in {events[i].type : i \in DOMAIN events} \ {MostCommon.type} :
                \/ Count(type) < MostCommon.count
                \/ /\ Count(type) = MostCommon.count
                   /\ newest(MostCommon.type) < newest(type)

=============================================================================
