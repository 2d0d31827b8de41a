------------------------------- MODULE Listing -------------------------------
(***************************************************************************)
(* How the Rust programs rebuild the replies to /list and /rooms from      *)
(* lines of text: ListCollector of rust-tui/client/src/net.rs.  A line is  *)
(* the shape it has for the parsers and, in a list, the entry it names.    *)
(***************************************************************************)
EXTENDS Naturals, Sequences

CONSTANT Items   \* entries of lists

ASSUME ListingAssumption == Items # {}

(* "Online users:", "Active Rooms:", " - entry", and the lines parse_line  *)
(* tells apart; "moved" is the server's "Joined #room", and "chat_verb" a  *)
(* chat whose text starts with the word "joined" or "left".                *)
Shapes == {"users", "rooms", "item", "pm", "chat", "chat_verb", "joined", "left",
           "moved", "error", "notice"}

Line(shape, items) == [shape |-> shape, items |-> items]
Lines == [shape : Shapes \ {"item"}, items : {<<>>}]
         \cup {Line("item", <<i>>) : i \in Items}

MessageKinds == {"pm", "chat", "user_joined", "user_left", "system", "user_list", "room_list"}

Message(kind, items) == [kind |-> kind, items |-> items]

(* parse_line.  "bob: left early" after the time stamp has the shape of an *)
(* announcement, with "bob:" for the name.                                 *)
ParseLine(line) ==
    Message(CASE line.shape = "pm" -> "pm"
              [] line.shape = "chat" -> "chat"
              [] line.shape = "joined" -> "user_joined"
              [] line.shape \in {"left", "chat_verb"} -> "user_left"
              [] OTHER -> "system", <<>>)

(* CollectMode and the entries gathered.                                   *)
NewCollector == [mode |-> "none", items |-> <<>>]

Flush(c) ==
    CASE c.mode = "users" -> <<Message("user_list", c.items)>>
      [] c.mode = "rooms" -> <<Message("room_list", c.items)>>
      [] OTHER -> <<>>

ModeOnly(c) == [NewCollector EXCEPT !.items = c.items]
Flushed(c) == NewCollector

Gathered(items, line) == items \o line.items

(* feed: the collector after a line, and the messages that come out.       *)
Feed(s, line) ==
    LET c == s.collector
    IN CASE line.shape \in {"users", "rooms"} ->
              [collector |-> [Flushed(c) EXCEPT !.mode = line.shape],
               messages |-> s.messages \o Flush(c)]
         [] c.mode # "none" /\ line.shape = "item" ->
              [s EXCEPT !.collector.items = Gathered(@, line)]
         [] OTHER ->
              [collector |-> Flushed(c),
               messages |-> s.messages \o Flush(c) \o <<ParseLine(line)>>]

(* All lines of a frame, one after the other, and a flush at its end.      *)
CollectFrame(collector, frame) ==
    LET feed[n \in 0..Len(frame)] ==
            IF n = 0 THEN [collector |-> collector, messages |-> <<>>]
            ELSE Feed(feed[n - 1], frame[n])
        fed == feed[Len(frame)]
    IN [collector |-> Flushed(fed.collector),
        messages |-> fed.messages \o Flush(fed.collector)]

(* The entries of the list in a frame, by the look of the frame: the items *)
(* between the header and the next line of another shape.                  *)
Runs(f, header) ==
    {r \in (DOMAIN f) \X (DOMAIN f) :
        /\ r[1] =< r[2]
        /\ f[r[1]].shape = header
        /\ \A j \in (r[1] + 1)..r[2] : f[j].shape = "item"
        /\ r[2] + 1 \in DOMAIN f => f[r[2] + 1].shape # "item"}
ListedIn(f, header) ==
    {[j \in 1..(r[2] - r[1]) |-> f[r[1] + j].items[1]] : r \in Runs(f, header)}

=============================================================================
