---------------------------- MODULE QueryCache ----------------------------
(***************************************************************************)
(* One entry of the query cache that both front ends keep                  *)
(* (@tanstack/react-query 5, an external library, with the client of       *)
(* web-ui/src/App.tsx and admin-ui/src/App.tsx that leaves every option    *)
(* that matters here at its default).  An entry is                         *)
(*                                                                         *)
(*   data   what the components render: a value, or NoData                 *)
(*   fetch  "idle", "sent" (the request has left the browser) or           *)
(*          "answered" (the server has read its database and the answer is *)
(*          on its way back)                                               *)
(*   answer the value on its way back                                      *)
(*                                                                         *)
(* A request is served between "sent" and "answered" and fills the entry   *)
(* later, so what it brings may be older than what the page has done in    *)
(* between.                                                                *)
(***************************************************************************)

CONSTANT NoData    \* what an entry that was never filled renders

\* An entry nobody has asked for yet.
Fresh == [data |-> NoData, fetch |-> "idle", answer |-> NoData]

Entries(V) == [data : V \cup {NoData}, fetch : {"idle", "sent", "answered"},
               answer : V \cup {NoData}]

\* A component mounts, the window gets the focus or an interval runs out: the
\* entry is fetched, unless it is being fetched already.
Fetching(q) == IF q.fetch = "idle" THEN [q EXCEPT !.fetch = "sent"] ELSE q

\* The server reads v for the request.
Served(q, v) == [q EXCEPT !.fetch = "answered", !.answer = v]

\* The answer arrives and is rendered.
Filled(q) == [data |-> q.answer, fetch |-> "idle", answer |-> NoData]

\* The request fails for good: what is rendered stays.
Failed(q) == [q EXCEPT !.fetch = "idle", !.answer = NoData]

\* invalidateQueries on an entry a mounted component uses: it is fetched
\* again.  A fetch under way is cancelled first, but only when there is data
\* already: the first fetch of an entry is kept, and counts as the new one.
Invalidated(q) ==
    IF q.data = NoData /\ q.fetch # "idle"
    THEN q
    ELSE [q EXCEPT !.fetch = "sent", !.answer = NoData]

\* setQueryData: v is rendered at once; a fetch under way goes on and will
\* overwrite it.
Written(q, v) == [q EXCEPT !.data = v]

=============================================================================
