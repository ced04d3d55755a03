---------------------------- MODULE MCSmsShapes -----------------------------
(***************************************************************************)
(* Three shapes of instance of SmsReset in one run.  Three requests for a  *)
(* code are needed for the bound on live codes, two clients for guesses at *)
(* once, two users for a number that moves; the last shape has clients,    *)
(* users and two codes together, on a clock that ends before codes expire, *)
(* since all of it for the whole time is more than TLC gets through.       *)
(***************************************************************************)
EXTENDS MCSmsReset, FiniteSets

VARIABLE shape   \* who takes part, and until when the clock goes

Shapes ==
  {s \in [asks : SUBSET Asks, clients : SUBSET Clients, users : SUBSET Users,
          until : {MaxTime - 1, MaxTime}] :
     <<Cardinality(s.asks), Cardinality(s.clients), Cardinality(s.users), s.until>> \in
       {<<3, 1, 1, MaxTime>>, <<2, 2, 1, MaxTime>>, <<2, 2, 2, MaxTime - 1>>}}

\* Users who do not take part have no number.
WithoutNumber(numbers) == \A u \in Users \ shape.users : numbers[u] = None

\* Requests that do not take part are never made.
TakesPart ==
  /\ \A r \in (Asks \cup Clients) \ (shape.asks \cup shape.clients) : pc'[r] = "idle"
  /\ WithoutNumber(phone')
  /\ now' <= shape.until

ShapedInit == Init /\ shape \in Shapes /\ WithoutNumber(phone)

ShapedNext == Next /\ TakesPart /\ UNCHANGED shape

ShapedSpec == ShapedInit /\ [][ShapedNext]_<<vars, shape>>
=============================================================================
