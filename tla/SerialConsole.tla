--------------------------- MODULE SerialConsole -----------------------------
(***************************************************************************)
(* The console of a device: bytes typed at a terminal go through the ring  *)
(* of Core/serial_io.c (RxRing) to uart_rx_line_poll of Core/main_loop.c,  *)
(* which makes lines of them and sends or obeys them.  The interrupt comes *)
(* between any two accesses to the ring; what the loop does with a byte is *)
(* one step with the end of serial_get_byte.  Sending a line blocks the    *)
(* loop while the terminal goes on typing.  "N" stands for both cases of   *)
(* it, "CR" for either line end.                                           *)
(***************************************************************************)
EXTENDS RxRing

CONSTANTS Reports,      \* the lines that only print: "info" and "help"
          LINE_BUF_SIZE,
          MAX_TEXT,     \* the longest text pb_encode_data takes (127)
          BootId,       \* node_id after boot
          MAX_TYPED     \* bound: characters typed

ASSUME ConsoleAssumption ==
    /\ "CR" \in Byte
    /\ MAX_TEXT \in Nat \ {0} /\ LINE_BUF_SIZE \in Nat /\ LINE_BUF_SIZE > MAX_TEXT + 1
    /\ \A r \in Reports : r # <<>> /\ r[1] # "N"
    /\ BootId \in Nat /\ MAX_TYPED \in Nat

Digits == <<"1", "2", "3", "4", "5", "6", "7", "8", "9">>
IsDigit(c) == \E k \in 1 .. 9 : Digits[k] = c
Digit(c) == CHOOSE k \in 1 .. 9 : Digits[k] = c

VARIABLES line_buf,     \* the first line_len bytes of it
          node_id,
          pc,           \* "poll", or "send" in send_lora_packet
          typed,        \* history: everything typed
          kept,         \* history: what of it entered the ring
          taken,        \* history: how many bytes uart_rx_line_poll has read
          sent          \* history: the texts handed to lora_tx, and the byte
                        \* that ended each

vars == <<ring, line_buf, node_id, pc, typed, kept, taken, sent>>

Init ==
    /\ RingInit
    /\ line_buf = <<>> /\ node_id = BootId /\ pc = "poll"
    /\ typed = <<>> /\ kept = <<>> /\ taken = 0 /\ sent = {}

\* The receive interrupt.  What it pushes into a full ring is not kept.
Type(b) ==
    /\ Len(typed) < MAX_TYPED
    /\ serial_push_byte(b)
    /\ typed' = Append(typed, b)
    /\ kept' = IF rx_head' # rx_head THEN Append(kept, b) ELSE kept
    /\ UNCHANGED <<line_buf, node_id, pc, taken, sent>>

\* serial_get_byte, up to its return.
Getting ==
    /\ pc = "poll"
    /\ GetEmpty \/ GetCheck \/ GetRead
    /\ UNCHANGED <<line_buf, node_id, pc, typed, kept, taken, sent>>

\* serial_get_byte returns b.
Get(b) ==
    /\ pc = "poll"
    /\ byte = b
    /\ GetAdvance
    /\ taken' = taken + 1
    /\ UNCHANGED <<typed, kept>>

\* Mutations: the buffer as long as the longest text; no limit.
RoomForText == Len(line_buf) < MAX_TEXT
RoomAlways == Len(line_buf) <= LINE_BUF_SIZE
Room == Len(line_buf) < LINE_BUF_SIZE - 1

\* A character of the line; what does not fit is dropped.
Collect ==
    /\ \E b \in Byte \ {"CR"} :
         Get(b) /\ line_buf' = IF Room THEN Append(line_buf, b) ELSE line_buf
    /\ UNCHANGED <<node_id, pc, sent>>

EmptyLine == Get("CR") /\ line_buf = <<>> /\ UNCHANGED <<line_buf, node_id, pc, sent>>

IsNodeCommand(l) == Len(l) >= 2 /\ l[1] = "N"

\* Mutation: an id is only taken at boot.
NodeCommandOnce ==
    /\ Get("CR") /\ IsNodeCommand(line_buf)
    /\ node_id' = IF node_id = BootId /\ IsDigit(line_buf[2])
                    THEN Digit(line_buf[2]) ELSE node_id
    /\ line_buf' = <<>>
    /\ UNCHANGED <<pc, sent>>

\* N1 .. N9; any other line that begins with N is taken as well.
NodeCommand ==
    /\ Get("CR") /\ IsNodeCommand(line_buf)
    /\ node_id' = IF IsDigit(line_buf[2]) THEN Digit(line_buf[2]) ELSE node_id
    /\ line_buf' = <<>>
    /\ UNCHANGED <<pc, sent>>

Report ==
    /\ Get("CR") /\ line_buf \in Reports
    /\ line_buf' = <<>>
    /\ UNCHANGED <<node_id, pc, sent>>

\* What is left for send_lora_packet.
IsTextLine(l) == l # <<>> /\ ~IsNodeCommand(l) /\ l \notin Reports

\* send_lora_packet, up to the transmission; it refuses a text that does not
\* fit.
SendLine ==
    /\ Get("CR") /\ IsTextLine(line_buf)
    /\ \/ /\ Len(line_buf) <= MAX_TEXT
          /\ sent' = sent \cup {[text |-> line_buf, at |-> taken']}
          /\ pc' = "send"
          /\ UNCHANGED line_buf
       \/ /\ Len(line_buf) > MAX_TEXT
          /\ line_buf' = <<>>
          /\ UNCHANGED <<pc, sent>>
    /\ UNCHANGED node_id

\* Mutation: a transmission that does not come back.
NeverSent == FALSE /\ UNCHANGED vars

\* lora_tx is over.
Sent ==
    /\ pc = "send"
    /\ pc' = "poll"
    /\ line_buf' = <<>>
    /\ UNCHANGED <<ring, node_id, typed, kept, taken, sent>>

Poll == Getting \/ Collect \/ EmptyLine \/ NodeCommand \/ Report \/ SendLine \/ Sent

Next == (\E b \in Byte : Type(b)) \/ Poll

\* The main loop runs, and lora_tx returns (CallsReturn of RadioDriver).
FairSpec == Init /\ [][Next]_vars /\ WF_vars(Poll)

-----------------------------------------------------------------------------
\* The line that byte b of s ends.
LineAt(s, b) ==
    LET before == {a \in 1 .. b - 1 : s[a] = "CR"}
        start  == IF before = {} THEN 0
                  ELSE CHOOSE a \in before : \A a2 \in before : a2 <= a
    IN  SubSeq(s, start + 1, b - 1)

Ends(s, n) == {b \in 1 .. n : s[b] = "CR"}

\* The line buffer keeps a byte for the terminating zero (main_loop.c:141).
TypeOK ==
    /\ RingTypeOK
    /\ Len(line_buf) < LINE_BUF_SIZE
    /\ node_id \in {BootId} \cup 1 .. 9
    /\ pc \in {"poll", "send"}
    /\ taken \in 0 .. Len(kept)
    /\ kept = SubSeq(kept, 1, taken) \o Contents
    /\ \A e \in sent : Len(e.text) <= MAX_TEXT /\ e.at <= taken

\* The commands by what the console says of itself (main_loop.c:154), README.md
\* and RADIO_EXCHANGE.md: N1 .. N9, info and help.  Any other text is to be sent.
SetsNodeId(l) == Len(l) = 2 /\ l[1] = "N" /\ IsDigit(l[2])

IsCommand(l) == SetsNodeId(l) \/ l \in Reports

\* The lines the code takes for commands as well (OtherTextIsSent is about them).
IsDisputed(l) == Len(l) >= 2 /\ l[1] = "N" /\ ~SetsNodeId(l)

Fits(l) == l # <<>> /\ Len(l) <= MAX_TEXT

\* Of the lines that entered the ring, exactly those that are no command and fit
\* a packet are sent, each once, whole and as it was typed: what does not fit the
\* line buffer or a packet is not sent in part, and no command leaves characters
\* for the next line.  Disputed lines are left out on both sides.
SentAreTheTextLines ==
    {e \in sent : ~IsDisputed(e.text)} =
      {[text |-> LineAt(kept, b), at |-> b] :
         b \in {e \in Ends(kept, taken) : LET l == LineAt(kept, e)
                                         IN  Fits(l) /\ ~IsCommand(l) /\ ~IsDisputed(l)}}

\* Any text that fits and is no command is sent (main_loop.c:154).
OtherTextIsSent ==
    \A b \in Ends(kept, taken) :
        LET l == LineAt(kept, b)
        IN  Fits(l) /\ ~IsCommand(l) => [text |-> l, at |-> b] \in sent

\* The node runs with the id of the last line that is one of N1 .. N9, whatever
\* was typed before it and between; nothing is said once a longer line that
\* begins like one has come after it.
LastNodeIdCounts ==
    LET ids    == {b \in Ends(kept, taken) : SetsNodeId(LineAt(kept, b))}
        longer == {b \in Ends(kept, taken) : LET l == LineAt(kept, b)
                                             IN  IsDisputed(l) /\ IsDigit(l[2])}
    IN  /\ ids \cup longer = {} => node_id = BootId
        /\ \A b \in ids : (\A c \in ids \cup longer : c <= b)
                            => node_id = Digit(LineAt(kept, b)[2])

\* Whatever is typed while the loop is busy is handled in the end.
Drained == <>[](rx_head = rx_tail /\ pc = "poll")
=============================================================================
