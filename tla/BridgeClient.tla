----------------------------- MODULE BridgeClient -----------------------------
(***************************************************************************)
(* xwayland_dmabuf_bridge_client (wsi/x11/xwayland_dmabuf_bridge.cpp): the *)
(* client of the Unix socket on which a patched Xwayland takes the dma-buf *)
(* of each frame.  present_frame() and stop_stream() connect on demand,    *)
(* ask once per connection whether the server acknowledges frames, send a  *)
(* packet, and may wait a bounded time for its acknowledgement.            *)
(*                                                                         *)
(* A client is called by one thread at a time (the swapchain's thread lock *)
(* serialises the calls).  A call starts with CallClient and has ended     *)
(* when clientPc is "done".  The answers of the server that sit in the     *)
(* socket are told apart only by whether they name the packet waited for.  *)
(***************************************************************************)
CONSTANT BridgeFailures     \* socket operations that may fail

ASSUME BridgeAssumption == BridgeFailures \subseteq {"connect", "send", "receive"}

VARIABLES
    connected,      \* m_socket_fd >= 0
    connectFailed,  \* m_connect_failed
    syncAvailable,  \* m_feedback_sync_available
    feedbackWait,   \* m_feedback_wait_enabled, from the environment
    clientPc,       \* where the call is
    packet,         \* the packet it sends
    delivered,      \* what the call returned
    owed,           \* the server has the packet waited for and may answer it
    inbox           \* answers in the socket: to the "awaited" packet, to an "old" one

clientVars == <<connected, connectFailed, syncAvailable, feedbackWait, clientPc,
                packet, delivered, owed, inbox>>

ClientInit ==
    /\ connected = FALSE
    /\ connectFailed = FALSE
    /\ syncAvailable = FALSE
    /\ feedbackWait \in BOOLEAN
    /\ clientPc = "idle"
    /\ packet = "none"
    /\ delivered = FALSE
    /\ owed = FALSE
    /\ inbox = {}

(* present_frame() ("frame") or stop_stream() ("stop") is entered. *)
CallClient(p) ==
    /\ packet' = p
    /\ clientPc' = "ensure"
    /\ delivered' = FALSE
    /\ UNCHANGED <<connected, connectFailed, syncAvailable, feedbackWait, owed, inbox>>

ClientReturns(r) == clientPc' = "done" /\ delivered' = r

(* reset_connection(): what was in the socket is lost with it. *)
ResetConnection ==
    /\ connected' = FALSE
    /\ syncAvailable' = FALSE
    /\ owed' = FALSE
    /\ inbox' = {}

(* ensure_connected(): a refused connection is never tried again. *)
EnsureConnected ==
    /\ clientPc = "ensure"
    /\ \/ connected /\ clientPc' = "send" /\ UNCHANGED <<connected, connectFailed, delivered>>
       \/ ~connected /\ connectFailed /\ ClientReturns(FALSE)
          /\ UNCHANGED <<connected, connectFailed>>
       \/ /\ ~connected /\ ~connectFailed
          /\ connected' = TRUE
          /\ clientPc' = "hello"
          /\ UNCHANGED <<connectFailed, delivered>>
       \/ /\ ~connected /\ ~connectFailed
          /\ "connect" \in BridgeFailures
          /\ connectFailed' = TRUE
          /\ ClientReturns(FALSE)
          /\ UNCHANGED connected
    /\ UNCHANGED <<syncAvailable, feedbackWait, packet, owed, inbox>>

(* probe_feedback_support(): the HELLO packet goes out.  Whatever becomes  *)
(* of it, ensure_connected() returns true.                                 *)
SendHello ==
    /\ clientPc = "hello"
    /\ \/ clientPc' = "await_hello" /\ owed' = TRUE
          /\ UNCHANGED <<connected, syncAvailable, inbox>>
       \/ "send" \in BridgeFailures /\ ResetConnection /\ clientPc' = "send"
    /\ UNCHANGED <<connectFailed, feedbackWait, packet, delivered>>

(* What was waited for in vain is an old packet from now on. *)
GiveUp == /\ owed' = FALSE
          /\ inbox' = IF "awaited" \in inbox THEN {"old"} ELSE inbox

(* wait_for_feedback(): the answer to the packet waited for is taken ...   *)
TakeAnswer == /\ "awaited" \in inbox
              /\ inbox' = inbox \ {"awaited"}
              /\ owed' = FALSE

(* ... and the others are thrown away. *)
SkipAnswer ==
    /\ clientPc \in {"await_hello", "await"}
    /\ "old" \in inbox
    /\ inbox' = inbox \ {"old"}
    /\ UNCHANGED <<connected, connectFailed, syncAvailable, feedbackWait, clientPc,
                   packet, delivered, owed>>

(* The end of the probe: the server acknowledges frames, or it does not,   *)
(* or 100 ms have passed.                                                  *)
EndProbe ==
    /\ clientPc = "await_hello"
    /\ \/ TakeAnswer /\ syncAvailable' \in BOOLEAN /\ UNCHANGED connected
       \/ GiveUp /\ UNCHANGED <<connected, syncAvailable>>
    /\ clientPc' = "send"
    /\ UNCHANGED <<connectFailed, feedbackWait, packet, delivered>>

(* send_packet(): a socket lost meanwhile (descriptor -1) fails to send.   *)
SendPacket ==
    /\ clientPc = "send"
    /\ \/ /\ connected
          /\ LET waits == packet = "frame" /\ syncAvailable /\ feedbackWait
             IN  /\ owed' = waits
                 /\ IF waits THEN clientPc' = "await" /\ UNCHANGED delivered
                             ELSE ClientReturns(TRUE)
          /\ UNCHANGED <<connected, syncAvailable, inbox>>
       \/ /\ ~connected \/ "send" \in BridgeFailures
          /\ ResetConnection
          /\ ClientReturns(FALSE)
    /\ UNCHANGED <<connectFailed, feedbackWait, packet>>

(* Bug: the wait for an acknowledgement has no end. *)
AwaitFeedbackForever ==
    /\ clientPc = "await"
    /\ TakeAnswer
    /\ ClientReturns(TRUE)
    /\ UNCHANGED <<connected, connectFailed, syncAvailable, feedbackWait, packet>>

(* The wait of present_frame(): acknowledged, rejected, late or lost, the  *)
(* frame counts as submitted; a late answer ends the waiting for good.     *)
AwaitFeedback ==
    /\ clientPc = "await"
    /\ \/ TakeAnswer /\ UNCHANGED <<connected, syncAvailable>>
       \/ GiveUp /\ syncAvailable' = FALSE /\ UNCHANGED connected
    /\ ClientReturns(TRUE)
    /\ UNCHANGED <<connectFailed, feedbackWait, packet>>

(* Either wait ends at once when the socket is closed or in error. *)
ReceiveFails ==
    /\ clientPc \in {"await_hello", "await"}
    /\ "receive" \in BridgeFailures
    /\ ResetConnection
    /\ IF clientPc = "await" THEN ClientReturns(TRUE) ELSE clientPc' = "send" /\ UNCHANGED delivered
    /\ UNCHANGED <<connectFailed, feedbackWait, packet>>

(* The server answers the packet it has, or one it got earlier. *)
ServerAnswers ==
    /\ connected
    /\ \/ owed /\ "awaited" \notin inbox /\ inbox' = inbox \union {"awaited"}
       \/ "old" \notin inbox /\ inbox' = inbox \union {"old"}
    /\ UNCHANGED <<connected, connectFailed, syncAvailable, feedbackWait, clientPc,
                   packet, delivered, owed>>

(* The caller has the result. *)
LeaveClient ==
    /\ clientPc = "done"
    /\ clientPc' = "idle"
    /\ packet' = "none"
    /\ UNCHANGED <<connected, connectFailed, syncAvailable, feedbackWait, delivered,
                   owed, inbox>>

ClientRuns == \/ EnsureConnected \/ SendHello \/ EndProbe
              \/ SendPacket \/ AwaitFeedback \/ SkipAnswer
=============================================================================
