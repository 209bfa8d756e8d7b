-------------------------------- MODULE Pfcp --------------------------------
(***************************************************************************)
(* 5gc/upf: the PFCP session establishment between the SMF clients         *)
(* (smf_pfcp_client.c and smf_pfcp_client_fixed.c) and the receiver thread *)
(* of pfcp_receiver_example.c, over UDP: datagrams are lost, delayed and    *)
(* delivered twice.                                                        *)
(***************************************************************************)
EXTENDS Naturals, Sequences, FiniteSets

CONSTANTS Smfs,           \* client processes
          Fixed,          \* those that run smf_pfcp_client_fixed
          MaxSessions     \* MAX_SESSIONS of the receiver (1000)

VARIABLES smf,          \* smf[c]: step, number of the session, accepted responses
          g_sessions,   \* g_sessions[c]: SEIDs the client has stored
          requests,     \* datagrams on the way to the receiver; a lost one stays
          responses,    \* responses[c]: datagrams on the way back to c
          duplicated,   \* the network has delivered a datagram twice
          receiver,     \* what the receiver thread does
          ue_sessions   \* the receiver's table

pfcpVars == <<smf, g_sessions, requests, responses, duplicated, receiver, ue_sessions>>

\* The fixed client sends one request, the other one sends three.
Sessions(c) == IF c \in Fixed THEN 1 ELSE 3
Idle == [step |-> "recv", from |-> "none", seid |-> 0, nr |-> 0]

PfcpInit ==
    /\ smf = [c \in Smfs |-> [step |-> "send", nr |-> 1, accepted |-> {}, timeout |-> FALSE]]
    /\ g_sessions = [c \in Smfs |-> <<>>]
    /\ requests = {} /\ responses = [c \in Smfs |-> {}] /\ duplicated = FALSE
    /\ receiver = Idle /\ ue_sessions = <<>>

-----------------------------------------------------------------------------
(* What the receiver finds in bytes 4 to 11 of a request, its SEID field.  *)

\* Stands for the bytes of the Node ID IE, which follows a header without SEID.
IeBytes == 0

\* Mutant: the fixed client leaves the S bit and the SEID out as well.
pfcp_build_without_seid(seid) == IeBytes

\* smf_pfcp_client_fixed.c: a header of 16 bytes with the SEID.
pfcp_build_header_fixed(seid) == seid

\* smf_pfcp_client.c: 8 bytes, then the IEs, over the sequence number as well.
pfcp_build_header(seid) == IeBytes

\* get_next_seid counts from the same start in every process.
get_next_seid(c) == Len(g_sessions[c]) + 1

-----------------------------------------------------------------------------
(* A client; a request is told apart by the client and its number, which   *)
(* stand for the SUPI and addresses it carries.                            *)

\* What is left when datagram d arrives; the network delivers one of all again.
Left(queue, d, again) == IF again THEN queue ELSE queue \ {d}
MayRepeat == {FALSE, ~duplicated}

Request(c, field) == [from |-> c, nr |-> smf[c].nr, seid |-> field]
NextSession(c) == [smf[c] EXCEPT !.step = IF @ = "done" \/ smf[c].nr = Sessions(c) THEN "done" ELSE "send",
                                 !.nr = IF smf[c].nr = Sessions(c) THEN @ ELSE @ + 1]

\* The session is stored before sendto, which may fail.
SendRequest(c, field, sent) ==
    /\ smf[c].step = "send"
    /\ g_sessions' = [g_sessions EXCEPT ![c] = Append(@, get_next_seid(c))]
    /\ requests' = IF sent THEN requests \cup {Request(c, field)} ELSE requests
    /\ smf' = [smf EXCEPT ![c] = IF sent THEN [@ EXCEPT !.step = "wait"] ELSE NextSession(c)]
    /\ UNCHANGED <<responses, duplicated, receiver, ue_sessions>>

send_session_establishment_request(c, sent) ==
    /\ c \notin Fixed
    /\ SendRequest(c, pfcp_build_header(get_next_seid(c)), sent)

send_session_establishment_request_fixed(c, sent) ==
    /\ c \in Fixed
    /\ SendRequest(c, pfcp_build_header_fixed(get_next_seid(c)), sent)

\* The first response to arrive is taken, whichever request it answers.
receive_pfcp_response(c) ==
    /\ smf[c].step = "wait"
    /\ \E r \in responses[c], again \in MayRepeat :
          /\ responses' = [responses EXCEPT ![c] = Left(@, r, again)]
          /\ duplicated' = (duplicated \/ again)
          /\ smf' = [smf EXCEPT ![c] = [NextSession(c) EXCEPT !.accepted = @ \cup {<<smf[c].nr, r>>}]]
    /\ UNCHANGED <<g_sessions, requests, receiver, ue_sessions>>

\* SO_RCVTIMEO, 5 seconds.
ReceiveTimeout(c) ==
    /\ smf[c].step = "wait"
    /\ smf' = [smf EXCEPT ![c] = [NextSession(c) EXCEPT !.timeout = TRUE]]
    /\ UNCHANGED <<g_sessions, requests, responses, duplicated, receiver, ue_sessions>>

-----------------------------------------------------------------------------
(* The receiver thread *)

pfcp_receiver_thread ==
    /\ receiver.step = "recv"
    /\ \E r \in requests, again \in MayRepeat :
          /\ requests' = Left(requests, r, again)
          /\ duplicated' = (duplicated \/ again)
          /\ receiver' = [step |-> "add", from |-> r.from, seid |-> r.seid, nr |-> r.nr]
    /\ UNCHANGED <<smf, g_sessions, responses, ue_sessions>>

\* Under session_lock; a full table is not answered.
handle_pfcp_message ==
    /\ receiver.step = "add"
    /\ IF Len(ue_sessions) >= MaxSessions
       THEN receiver' = Idle /\ UNCHANGED ue_sessions
       ELSE /\ ue_sessions' = Append(ue_sessions, [from |-> receiver.from, nr |-> receiver.nr, seid |-> receiver.seid])
            /\ receiver' = [receiver EXCEPT !.step = "respond"]
    /\ UNCHANGED <<smf, g_sessions, requests, responses, duplicated>>

create_pfcp_session_response(sent) ==
    /\ receiver.step = "respond"
    /\ responses' = IF sent THEN [responses EXCEPT ![receiver.from] = @ \cup {receiver.nr}] ELSE responses
    /\ receiver' = Idle
    /\ UNCHANGED <<smf, g_sessions, requests, duplicated, ue_sessions>>

PfcpNext ==
    \/ \E c \in Smfs :
          \/ \E sent \in BOOLEAN : \/ send_session_establishment_request(c, sent)
                                   \/ send_session_establishment_request_fixed(c, sent)
          \/ receive_pfcp_response(c) \/ ReceiveTimeout(c)
    \/ pfcp_receiver_thread \/ handle_pfcp_message
    \/ \E sent \in BOOLEAN : create_pfcp_session_response(sent)

PfcpSpec == PfcpInit /\ [][PfcpNext]_pfcpVars

-----------------------------------------------------------------------------
Stored(c) == SelectSeq(ue_sessions, LAMBDA s : s.from = c)

\* A response a client takes for "Session established successfully" answers a
\* session of its own that the receiver has stored, the one it has just asked for
\* or an earlier one, however datagrams are lost, delayed and repeated and the
\* table fills up.  It is an earlier one only after a wait that timed out or a
\* datagram that came twice: receive_pfcp_response compares no sequence number.
EstablishedIsStored ==
    \A c \in Smfs : \A a \in smf[c].accepted :
        /\ \E i \in DOMAIN Stored(c) : Stored(c)[i].nr = a[2]
        /\ a[2] <= a[1]
        /\ smf[c].timeout \/ duplicated \/ a[1] = a[2]

\* The receiver keeps a session under the SEID that its (fixed) client keeps it
\* under; a SEID is unique in a client only.
SeidsAgree ==
    \A c \in Fixed : \A i \in DOMAIN Stored(c) :
        \E j \in DOMAIN g_sessions[c] : Stored(c)[i].seid = g_sessions[c][j]

\* So what the clients believe to be established is in the receiver's table.
SessionsAgree == EstablishedIsStored /\ SeidsAgree
=============================================================================
