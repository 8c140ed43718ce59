--------------------------- MODULE ConnSequence ---------------------------
(***************************************************************************)
(* rdp_conn_run of the worker from the first byte to the choice of a login *)
(* (conn.c), with the wire formats it reads and writes (x224.c, mcs.c,     *)
(* sec.c, license.c, capset.c, rdp_pdu.c, autodetect.c) and, when the      *)
(* client asks for it, CredSSP with NTLM (nla.c, cssp.c, ntlm.c).          *)
(*                                                                         *)
(* Worker and client exchange PDUs over two FIFO streams.  The worker's    *)
(* actions are the stretches of its code between two blocking reads.  The  *)
(* client is external: it follows the protocol, and its load says what it  *)
(* asks for, how it answers the bandwidth probe, and whether it may leave. *)
(* Keys, hashes and signatures are symbols, equal when computed from equal *)
(* parts.                                                                  *)
(***************************************************************************)
EXTENDS Integers, Sequences, FiniteSets, FiniteSetsExt, SequencesExt

CONSTANTS ConnLoads,           \* the connections of the instance
          ConnMaxChannels,     \* RDP_MCS_MAX_CHANNELS
          ConnMaxMonitors,     \* RDP_MCS_MAX_MONITORS
          Nil                  \* absent

VARIABLES cn_ph,      \* the read the worker is at
          cn,         \* what it knows of the connection
          cn_up,      \* client to worker
          cn_down,    \* worker to client
          cn_cl,      \* the client
          cn_load

conn_vars == <<cn_ph, cn, cn_up, cn_down, cn_cl>>

-----------------------------------------------------------------------------
(* X.224 and MCS PDUs                                                       *)

RDP_MCS_IO_CHANNEL_ID == 1003
UserId == 1002
FirstChannel == 1004

rdp_x224_parse_cr(m) ==
    [ok |-> m.t = "CR", have_neg_req |-> m.t = "CR" /\ m.protocols # Nil,
     requested |-> IF m.t = "CR" /\ m.protocols # Nil THEN m.protocols ELSE {}]

rdp_x224_build_cc(failure, selected) ==
    [t |-> "CC", ok |-> ~failure, selected |-> selected]

\* Monitors past the limit are not looked at; too many channels are an error.
rdp_mcs_parse_connect_initial(m) ==
    [ok |-> m.t = "ConnectInitial" /\ Len(m.channels) <= ConnMaxChannels,
     size |-> m.size,
     monitors |-> SubSeq(m.monitors, 1, Min({Len(m.monitors), ConnMaxMonitors})),
     channels |-> m.channels, msgchannel |-> m.msgchannel, early |-> m.early]

\* SC_MCS_MSGCHANNEL is there when there is a message channel.
rdp_mcs_build_connect_response_NoMsg(ids, msgchannel) ==
    [t |-> "ConnectResponse", io |-> RDP_MCS_IO_CHANNEL_ID, ids |-> ids, msg |-> 0]

rdp_mcs_build_connect_response(ids, msgchannel) ==
    [t |-> "ConnectResponse", io |-> RDP_MCS_IO_CHANNEL_ID, ids |-> ids, msg |-> msgchannel]

rdp_mcs_build_attach_user_confirm == [t |-> "AttachConfirm", user |-> UserId]
rdp_mcs_build_channel_join_confirm(c) == [t |-> "JoinConfirm", chan |-> c]

\* strip_tpkt_x224 and rdp_mcs_parse_send_data_request: data on a channel
IsSendData(m) == "chan" \in DOMAIN m /\ m.t # "Join"
send_send_data(chan, m) == m @@ [chan |-> chan]

-----------------------------------------------------------------------------
(* The desktop of the client's monitors, and its channels                   *)

RDP_DESKTOP_MIN == 200
RDP_DESKTOP_MAX == 8192
UINT16_MAX == 65535

Clamp(x) == Max({RDP_DESKTOP_MIN, Min({RDP_DESKTOP_MAX, x})})

\* One axis of the bounding box: edges are inclusive.
Extent_Exclusive(lows, highs) == Max(highs) - Min(lows)
Extent(lows, highs) == Max(highs) - Min(lows) + 1

DesktopSize(ci) ==
    LET core == [w |-> IF ci.size.w = 0 THEN 1024 ELSE ci.size.w,
                 h |-> IF ci.size.h = 0 THEN 768 ELSE ci.size.h]
        all  == ToSet(ci.monitors)
        bw   == Extent({m.left : m \in all}, {m.right : m \in all})
        bh   == Extent({m.top : m \in all}, {m.bottom : m \in all})
        want == IF Len(ci.monitors) > 1 /\ bw > 0 /\ bh > 0
                THEN [w |-> Min({bw, UINT16_MAX}), h |-> Min({bh, UINT16_MAX})]
                ELSE core
    IN [w |-> Clamp(want.w), h |-> Clamp(want.h)]

StaticChannels == {"cliprdr", "drdynvc", "rdpsnd", "rdpdr", "rail"}

\* The names that begin like the service's, without regard to case.
NamesOf(s) == IF s = "rail" THEN {"rail", "rail_wi", "rail_ri"} ELSE {s}

ChannelIds_FromIo(channels) == [i \in DOMAIN channels |-> RDP_MCS_IO_CHANNEL_ID + i - 1]
ChannelIds(channels) == [i \in DOMAIN channels |-> FirstChannel + i - 1]

\* The last channel that matches; 0 when the service is off.
ServiceChannels(channels) ==
    [s \in StaticChannels |->
        Max({0} \cup {ChannelIds(channels)[i] :
                        i \in {j \in DOMAIN channels : channels[j] \in NamesOf(s)}})]

MsgChannelId_Last(ci) == IF ci.msgchannel THEN FirstChannel + Len(ci.channels) - 1 ELSE 0
MsgChannelId(ci) == IF ci.msgchannel THEN FirstChannel + Len(ci.channels) ELSE 0

-----------------------------------------------------------------------------
(* The client's time zone as a POSIX TZ value (sec.c).  Windows counts      *)
(* minutes west of UTC; POSIX writes the offset west and the label east.    *)

TZ_OFF_LIMIT == 14 * 60
Abs(x) == IF x < 0 THEN -x ELSE x

tz_fmt_offset_Whole(min) == [neg |-> min < 0, h |-> Abs(min) \div 60, m |-> 0]
tz_fmt_offset(min) == [neg |-> min < 0, h |-> Abs(min) \div 60, m |-> Abs(min) % 60]
tz_fmt_label(utc_min) == tz_fmt_offset(utc_min)

rdp_tz_to_posix(z) ==
    LET std_off == z.bias + z.std_bias
        dst_off == z.bias + z.dst_bias
        plausible(off) == off \in -TZ_OFF_LIMIT .. TZ_OFF_LIMIT
    IN IF ~(z.named \/ z.bias # 0 \/ z.rule) \/ ~plausible(std_off) \/ ~plausible(dst_off)
       THEN Nil
       ELSE [std |-> tz_fmt_offset(std_off), std_label |-> tz_fmt_label(-std_off),
             dst |-> IF z.rule THEN tz_fmt_offset(dst_off) ELSE Nil]

\* The flags, names and cookie of the Client Info are taken as they are.
rdp_client_info_parse(m) ==
    [user |-> m.user, have_arc |-> m.arc, have_password |-> m.password,
     timezone |-> rdp_tz_to_posix(m.zone)]

-----------------------------------------------------------------------------
(* CredSSP (cssp.c) and NTLM (ntlm.c)                                       *)

rdp_cssp_build(version, nego, nonce, pka, info) ==
    [t |-> "TSRequest", version |-> version, nego |-> nego, nonce |-> nonce,
     pka |-> pka, info |-> info]
rdp_cssp_parse(m, field) == m.t = "TSRequest" /\ m[field] # Nil

ntlm_build_challenge(flags) == [msg |-> "CHALLENGE", flags |-> flags, random |-> "server"]

\* NTProofStr, and the session base key made of it
NTProof(hash, user, challenge, temp) ==
    [hash |-> hash, user |-> user, challenge |-> challenge.random, temp |-> temp]
BaseKey(proof) == [base |-> proof]

ntlm_verify_ntlmv2_hash(challenge, auth, nt_hash) ==
    auth.proof = NTProof(nt_hash, auth.user, challenge, auth.temp)

\* With key exchange the client picks the key and sends it under the base key.
Wrap(key, with) == [wrapped |-> key, under |-> with]
ntlm_derive_exported_key(auth, base) ==
    IF ~auth.key_exch THEN base
    ELSE IF auth.skey.under = base THEN auth.skey.wrapped ELSE [garbled |-> base]

\* MIC over NEGOTIATE, CHALLENGE and AUTHENTICATE without its MIC
MicOf(key, negotiate, challenge, auth) ==
    [key |-> key, over |-> <<negotiate, challenge, [auth EXCEPT !.mic = Nil]>>]
ntlm_auth_has_mic(auth) == auth.temp.mic
ntlm_verify_mic(key, negotiate, challenge, auth) ==
    auth.mic = MicOf(key, negotiate, challenge, auth)

\* A sealed message: the keys of its direction, its place in the running RC4
\* stream, and the sequence number its signature covers.
ntlm_seal_message(dir, key, at, seq, text) ==
    [dir |-> dir, key |-> key, at |-> at, seq |-> seq, text |-> text]
ntlm_unseal_message(dir, key, at, seq, m) ==
    m.dir = dir /\ m.key = key /\ m.at = at /\ m.seq = seq

\* verify_client_binding and the server's own pubKeyAuth: a hash over the
\* nonce from version 5, else the key, which the server increments.
binding_hash(dir, nonce) == [magic |-> dir, nonce |-> nonce, pubkey |-> "server"]
Binding(dir, version, nonce) ==
    IF version >= 5 /\ nonce # Nil THEN binding_hash(dir, nonce)
    ELSE [pubkey |-> "server", plus |-> IF dir = "stc" THEN 1 ELSE 0]

verify_client_binding(key, version, nonce, pka) ==
    /\ ntlm_unseal_message("cts", key, 0, 0, pka)
    /\ pka.text = Binding("cts", version, nonce)

\* The place of authInfo in the client's RC4 stream, after pubKeyAuth
AuthInfoAt == 1

-----------------------------------------------------------------------------
(* The bandwidth probe (autodetect.c, do_autodetect)                        *)

AUTODETECT_PROBE_BYTES == 32768
AUTODETECT_KBPS_MAX == 30000
DefaultRate == 0        \* no target: the encoder keeps its own

rdp_autodetect_build_rtt_request == [t |-> "RttRequest"]
rdp_autodetect_bandwidth_kbps(bytes, delta) ==
    IF delta = 0 THEN 0 ELSE (bytes * 8) \div delta

MeasuredKbps_Trusting(rsp) ==
    Min({rdp_autodetect_bandwidth_kbps(rsp.bytes, rsp.delta), AUTODETECT_KBPS_MAX})
MeasuredKbps(rsp) ==
    Min({rdp_autodetect_bandwidth_kbps(Min({rsp.bytes, AUTODETECT_PROBE_BYTES}), rsp.delta),
         AUTODETECT_KBPS_MAX})

TargetKbps(kbps) ==
    IF kbps = 0 THEN DefaultRate ELSE Max({1000, Min({30000, (kbps * 85) \div 100})})

\* rdp_autodetect_parse_response, after the channel and header checks of autodetect_recv
autodetect_recv(m, chan) ==
    IsSendData(m) /\ m.chan = chan /\ m.t \in {"RttResponse", "BwResults", "NetcharSync"}

\* Start, four payloads and Stop: one burst
BandwidthProbe == <<[t |-> "BwStart"], [t |-> "BwPayload"], [t |-> "BwStop"]>>

-----------------------------------------------------------------------------
(* The worker: one action per blocking read                                 *)

rdp_license_build_valid_client == [t |-> "License"]
rdp_capset_build_demand_active(size) == [t |-> "DemandActive", size |-> size]
rdp_pdu_build_font_map == [t |-> "FontMap"]

\* Steps 7 and 8
License(know) ==
    <<send_send_data(RDP_MCS_IO_CHANNEL_ID, rdp_license_build_valid_client),
      send_send_data(RDP_MCS_IO_CHANNEL_ID, rdp_capset_build_demand_active(know.size))>>

CloseNotify == [t |-> "Closed"]
CnMsg == Head(cn_up)

\* A PDU is read at ph.  When ok, the worker knows `know`, sends `replies` and
\* goes on to `next`; when not, rdp_conn_run goes to done.
Reads(ph, ok, next, know, replies) ==
    /\ cn_ph = ph /\ cn_up # <<>> /\ cn_up' = Tail(cn_up)
    /\ IF ok
       THEN cn_ph' = next /\ cn' = know /\ cn_down' = cn_down \o replies
       ELSE cn_ph' = "closed" /\ UNCHANGED cn /\ cn_down' = Append(cn_down, CloseNotify)
    /\ UNCHANGED <<cn_cl, cn_load>>

\* SSL or HYBRID is a must; HYBRID is taken when there are hashes to check with.
SelectProtocol(cr) ==
    IF cr.have_neg_req /\ "HYBRID" \in cr.requested /\ cn_load.sessmgr /\ cn_load.nthashes
    THEN "HYBRID" ELSE "SSL"

ReadCR ==
    LET cr == rdp_x224_parse_cr(CnMsg)
        wrong == cr.have_neg_req /\ cr.requested \cap {"SSL", "HYBRID"} = {}
        selected == SelectProtocol(cr)
    IN Reads("cr", cr.ok,
             IF wrong THEN "closed" ELSE "tls",
             [cn EXCEPT !.use_nla = selected = "HYBRID"],
             <<rdp_x224_build_cc(wrong, IF wrong THEN Nil ELSE selected)>>)

\* rdp_tls_accept
TlsAccept ==
    Reads("tls", CnMsg.t = "ClientHello", IF cn.use_nla THEN "negotiate" ELSE "initial", cn,
          <<[t |-> "TlsFinished"]>>)

\* rdp_nla_server, step 1 and 2
NlaNegotiate ==
    LET ch == ntlm_build_challenge(CnMsg.nego.flags)
    IN Reads("negotiate", rdp_cssp_parse(CnMsg, "nego"), "authenticate",
             [cn EXCEPT !.neg = CnMsg.nego, !.nonce = CnMsg.nonce, !.chal = ch],
             <<rdp_cssp_build(CnMsg.version, ch, Nil, Nil, Nil)>>)

SavedNonce_First(m) == cn.nonce
SavedNonce(m) == IF cn.nonce = Nil THEN m.nonce ELSE cn.nonce

lookup_nthash(user) == IF user \in DOMAIN cn_load.hashes THEN cn_load.hashes[user] ELSE Nil

\* Steps 3 to 5
NlaAuthenticate ==
    LET auth == CnMsg.nego
        nonce == SavedNonce(CnMsg)
        hash == lookup_nthash(auth.user)
        key == ntlm_derive_exported_key(auth, BaseKey(auth.proof))
    IN Reads("authenticate",
             /\ rdp_cssp_parse(CnMsg, "nego")
             /\ hash # Nil
             /\ ntlm_verify_ntlmv2_hash(cn.chal, auth, hash)
             /\ ntlm_auth_has_mic(auth) => ntlm_verify_mic(key, cn.neg, cn.chal, auth)
             /\ CnMsg.pka # Nil
             /\ verify_client_binding(key, CnMsg.version, nonce, CnMsg.pka),
             "authinfo",
             [cn EXCEPT !.nonce = nonce, !.key = key],
             <<rdp_cssp_build(CnMsg.version, Nil, Nil,
                  ntlm_seal_message("stc", key, 0, 0, Binding("stc", CnMsg.version, nonce)),
                  Nil)>>)

\* Step 6, and rdp_cssp_parse_tscredentials
NlaAuthInfo ==
    Reads("authinfo",
          /\ rdp_cssp_parse(CnMsg, "info")
          /\ ntlm_unseal_message("cts", cn.key, AuthInfoAt, 1, CnMsg.info),
          "initial", [cn EXCEPT !.nla_user = CnMsg.info.text.user], <<>>)

ReadConnectInitial ==
    LET ci == rdp_mcs_parse_connect_initial(CnMsg)
    IN Reads("initial", CnMsg.t = "ConnectInitial" /\ ci.ok, "erect",
             [cn EXCEPT !.size = DesktopSize(ci), !.early = ci.early,
                        !.svc = ServiceChannels(ci.channels), !.msg = MsgChannelId(ci)],
             <<rdp_mcs_build_connect_response(ChannelIds(ci.channels), MsgChannelId(ci))>>)

ReadErectDomain == Reads("erect", CnMsg.t = "ErectDomain", "attach", cn, <<>>)
ReadAttachUser ==
    Reads("attach", CnMsg.t = "AttachUser", "join", cn, <<rdp_mcs_build_attach_user_confirm>>)

MaxJoins == 50
ReadJoin ==
    /\ cn_up # <<>> /\ CnMsg.t = "Join"
    /\ Reads("join", cn.joins < MaxJoins, "join", [cn EXCEPT !.joins = @ + 1],
             <<rdp_mcs_build_channel_join_confirm(CnMsg.chan)>>)

\* g_allow_autodetect, a message channel, and a client that can
Autodetects == cn_load.autodetect /\ cn.msg # 0 /\ "AUTODETECT" \in cn.early

\* buf now holds the Client Info, and ci_pw points into it.
ReadClientInfo ==
    LET know == [cn EXCEPT !.info = rdp_client_info_parse(CnMsg), !.ci_pw = "password"]
    IN /\ cn_up # <<>> /\ CnMsg.t # "Join"
       /\ Reads("join", IsSendData(CnMsg) /\ CnMsg.t = "ClientInfo",
                IF Autodetects THEN "rtt" ELSE "confirm", know,
                IF Autodetects
                THEN <<send_send_data(cn.msg, rdp_autodetect_build_rtt_request)>>
                ELSE License(know))

AutodetectRtt ==
    LET answered == CnMsg.t = "RttResponse"
    IN Reads("rtt", autodetect_recv(CnMsg, cn.msg), IF answered THEN "bw" ELSE "confirm", cn,
             IF answered
             THEN [i \in DOMAIN BandwidthProbe |-> send_send_data(cn.msg, BandwidthProbe[i])]
             ELSE License(cn))

AutodetectBw ==
    LET kbps == MeasuredKbps(CnMsg)
        netchar == send_send_data(cn.msg, [t |-> "NetcharResult"])
    IN /\ cn_ph = "bw" /\ cn_up # <<>>
       /\ IF CnMsg.t = "BwResults"
          THEN Reads("bw", autodetect_recv(CnMsg, cn.msg), "confirm",
                     [cn EXCEPT !.rate = TargetKbps(kbps)], <<netchar>> \o License(cn))
          ELSE Reads("bw", autodetect_recv(CnMsg, cn.msg), "confirm", cn, License(cn))

\* poll gave up after five seconds with nothing to read.
AutodetectTimeout ==
    /\ cn_ph \in {"rtt", "bw"} /\ cn_up = <<>> /\ cn_cl.open /\ cn_load.answers \in {"never", "late"}
    /\ cn_ph' = "confirm" /\ cn_down' = cn_down \o License(cn)
    /\ UNCHANGED <<cn, cn_up, cn_cl, cn_load>>

\* The PDU is read into the same buf: what ci_pw points at is now its bytes,
\* when it is long enough to reach them.
ReadConfirmActive ==
    Reads("confirm", IsSendData(CnMsg) /\ CnMsg.t = "ConfirmActive", "final",
          [cn EXCEPT !.ci_pw = IF cn_load.covers THEN "capabilities" ELSE @],
          [i \in 1 .. 4 |-> send_send_data(RDP_MCS_IO_CHANNEL_ID,
              <<[t |-> "Synchronize"], [t |-> "Cooperate"], [t |-> "GrantedControl"],
                rdp_pdu_build_font_map>>[i])])

FinalizationReads == 10
FastPathStart == <<[t |-> "FpSynchronize"], [t |-> "PointerDefault"]>>

\* read_client_finalization: one PDU of the loop
ReadFinalization_EndsAtKeys ==
    LET font == CnMsg.t \in {"FontList", "PersistentKeys"}
    IN Reads("final", TRUE,
             IF font \/ cn.tries + 1 = FinalizationReads THEN "login" ELSE "final",
             [cn EXCEPT !.tries = @ + 1, !.keys = IF CnMsg.t = "PersistentKeys" THEN @ + 1 ELSE @],
             (IF font THEN <<send_send_data(RDP_MCS_IO_CHANNEL_ID, rdp_pdu_build_font_map)>> ELSE <<>>)
             \o IF font \/ cn.tries + 1 = FinalizationReads THEN FastPathStart ELSE <<>>)

ReadFinalization ==
    LET font == CnMsg.t = "FontList"
    IN Reads("final", TRUE,
             IF font \/ cn.tries + 1 = FinalizationReads THEN "login" ELSE "final",
             [cn EXCEPT !.tries = @ + 1, !.keys = IF CnMsg.t = "PersistentKeys" THEN @ + 1 ELSE @],
             (IF font THEN <<send_send_data(RDP_MCS_IO_CHANNEL_ID, rdp_pdu_build_font_map)>> ELSE <<>>)
             \o IF font \/ cn.tries + 1 = FinalizationReads THEN FastPathStart ELSE <<>>)

\* End of file in a read; read_client_finalization just stops at it.
ReadEof ==
    /\ cn_up = <<>> /\ ~cn_cl.open /\ cn_ph \notin {"login", "greeter", "proxy", "closed"}
    /\ cn_ph' = IF cn_ph = "final" THEN "login" ELSE "closed"
    /\ UNCHANGED <<cn, cn_up, cn_down, cn_cl, cn_load>>

\* The manager's answer to the credentials
Authenticates(password) == cn_load.grants /\ password = "password"

\* Step 10: a cookie, CredSSP credentials, those of the Client Info, the greeter.
ResumesSession ==
    /\ cn_ph = "login" /\ cn.info.have_arc /\ cn_load.sessmgr
    /\ cn_ph' = "proxy"
    /\ UNCHANGED <<cn, cn_up, cn_down, cn_cl, cn_load>>

ChooseLogin ==
    LET auto == cn_load.sessmgr /\ cn.info.user # "" /\ (cn_load.auto_login \/ cn.info.have_password)
        password == IF cn.info.have_password THEN cn.ci_pw ELSE "x"
    IN /\ cn_ph = "login"
       /\ IF cn.use_nla /\ cn.nla_user # ""
          THEN cn_ph' = (IF Authenticates("password") THEN "proxy" ELSE "closed") /\ UNCHANGED cn
          ELSE /\ cn' = IF auto THEN [cn EXCEPT !.presented = password] ELSE cn
               /\ cn_ph' = IF auto /\ Authenticates(password) THEN "proxy" ELSE "greeter"
       /\ cn_down' = IF cn_ph' = "closed" THEN Append(cn_down, CloseNotify) ELSE cn_down
       /\ UNCHANGED <<cn_up, cn_cl, cn_load>>

WorkerStep ==
    \/ ReadCR \/ TlsAccept \/ NlaNegotiate \/ NlaAuthenticate \/ NlaAuthInfo
    \/ ReadConnectInitial \/ ReadErectDomain \/ ReadAttachUser \/ ReadJoin \/ ReadClientInfo
    \/ AutodetectRtt \/ AutodetectBw \/ AutodetectTimeout
    \/ ReadConfirmActive \/ ReadFinalization \/ ReadEof \/ ResumesSession \/ ChooseLogin

-----------------------------------------------------------------------------
(* The client (external)                                                    *)

\* It hears a PDU of type t and, if it still is in st, goes to `next`.
Hears(st, t, ok, next, says) ==
    /\ cn_cl.open /\ cn_cl.st = st /\ cn_down # <<>> /\ Head(cn_down).t = t
    /\ cn_down' = Tail(cn_down)
    /\ cn_cl' = IF ok THEN next ELSE [cn_cl EXCEPT !.st = "refused", !.open = FALSE]
    /\ cn_up' = IF ok THEN cn_up \o says ELSE cn_up
    /\ UNCHANGED <<cn_ph, cn, cn_load>>

To(st) == [cn_cl EXCEPT !.st = st]
Heard == Head(cn_down)

ConnectInitial ==
    [t |-> "ConnectInitial", size |-> cn_load.size, monitors |-> cn_load.monitors,
     channels |-> cn_load.channels, msgchannel |-> cn_load.msgchannel, early |-> cn_load.early]

ClientConnects ==
    /\ cn_cl.st = "idle" /\ cn_cl' = To("cc")
    /\ cn_up' = Append(cn_up, [t |-> "CR", protocols |-> cn_load.protocols])
    /\ UNCHANGED <<cn_ph, cn, cn_down, cn_load>>

ClientGetsCC ==
    Hears("cc", "CC", Heard.ok, [To("tls") EXCEPT !.selected = Heard.selected],
          <<[t |-> "ClientHello"]>>)

NlaClient == cn_load.nla
Negotiate == [msg |-> "NEGOTIATE", flags |-> "client"]

ClientTlsUp ==
    Hears("tls", "TlsFinished", TRUE,
          To(IF cn_cl.selected = "HYBRID" THEN "challenge" ELSE "response"),
          <<IF cn_cl.selected = "HYBRID"
            THEN rdp_cssp_build(NlaClient.version, Negotiate,
                     IF NlaClient.nonce = "negotiate" THEN "nonce" ELSE Nil, Nil, Nil)
            ELSE ConnectInitial>>)

\* The client's side of NTLM: its proof, its key, its MIC, its pubKeyAuth
ClientKey(challenge) ==
    LET base == BaseKey(NTProof(NlaClient.hash, NlaClient.user, challenge, [mic |-> NlaClient.mic]))
    IN IF NlaClient.key_exch THEN [random |-> "client"] ELSE base
ClientNonce == IF NlaClient.nonce = Nil THEN Nil ELSE "nonce"

ClientGetsChallenge ==
    LET chal == Heard.nego
        proof == NTProof(NlaClient.hash, NlaClient.user, chal, [mic |-> NlaClient.mic])
        key == ClientKey(chal)
        bare == [msg |-> "AUTHENTICATE", user |-> NlaClient.user, proof |-> proof,
                 temp |-> [mic |-> NlaClient.mic], key_exch |-> NlaClient.key_exch,
                 skey |-> Wrap([random |-> "client"], BaseKey(proof)), mic |-> Nil]
        auth == IF NlaClient.mic
                THEN [bare EXCEPT !.mic = MicOf(key, Negotiate, chal, bare)] ELSE bare
    IN Hears("challenge", "TSRequest", TRUE, [To("pubkey") EXCEPT !.key = key],
             <<rdp_cssp_build(NlaClient.version, auth,
                  IF NlaClient.nonce = "authenticate" THEN "nonce" ELSE Nil,
                  ntlm_seal_message("cts", key, 0, 0, Binding("cts", NlaClient.version, ClientNonce)),
                  Nil)>>)

\* It trusts the server's pubKeyAuth, sends its credentials and goes straight on.
ClientGetsPubKey ==
    Hears("pubkey", "TSRequest",
          /\ ntlm_unseal_message("stc", cn_cl.key, 0, 0, Heard.pka)
          /\ Heard.pka.text = Binding("stc", NlaClient.version, ClientNonce),
          To("response"),
          <<rdp_cssp_build(NlaClient.version, Nil, Nil, Nil,
                ntlm_seal_message("cts", cn_cl.key, 1, 1, [user |-> NlaClient.user])),
            ConnectInitial>>)

\* A client that asked for a message channel waits until it learns of one.
ClientGetsResponse ==
    LET hangs == cn_load.msgchannel /\ Heard.msg = 0
    IN Hears("response", "ConnectResponse", TRUE,
             [To(IF hangs THEN "hangs" ELSE "attach") EXCEPT !.ids = Heard.ids, !.msg = Heard.msg],
             IF hangs THEN <<>> ELSE <<[t |-> "ErectDomain"], [t |-> "AttachUser"]>>)

\* The user channel, the I/O channel, the others
ToJoin == <<UserId, RDP_MCS_IO_CHANNEL_ID>> \o cn_cl.ids
          \o IF cn_cl.msg = 0 THEN <<>> ELSE <<cn_cl.msg>>
Join(i) == [t |-> "Join", chan |-> ToJoin[i]]

ClientInfo ==
    send_send_data(RDP_MCS_IO_CHANNEL_ID,
        [t |-> "ClientInfo", user |-> cn_load.user, password |-> cn_load.password,
         arc |-> cn_load.arc, zone |-> cn_load.zone])

ClientAttached ==
    Hears("attach", "AttachConfirm", TRUE, [To("join") EXCEPT !.joined = 1], <<Join(1)>>)
ClientJoined ==
    LET last == cn_cl.joined = Len(ToJoin)
    IN Hears("join", "JoinConfirm", Heard.chan = ToJoin[cn_cl.joined],
             IF last THEN To("demand") ELSE [cn_cl EXCEPT !.joined = @ + 1],
             <<IF last THEN ClientInfo ELSE Join(cn_cl.joined + 1)>>)

\* Answers to the probe: in time, later than the worker waits, or never; a
\* client that reconnects may answer with what it measured before.
Owes(m) ==
    LET answer == IF cn_load.answers = "sync" THEN [t |-> "NetcharSync"] ELSE m
    IN IF cn_load.answers = "never" THEN cn_cl
       ELSE [cn_cl EXCEPT !.owed = Append(@, send_send_data(cn_cl.msg, answer))]

ClientProbed ==
    \/ Hears("demand", "RttRequest", TRUE, Owes([t |-> "RttResponse"]), <<>>)
    \/ Hears("demand", "BwStop", TRUE,
             Owes([t |-> "BwResults", bytes |-> cn_load.link.bytes, delta |-> cn_load.link.delta]),
             <<>>)

ClientReplies ==
    /\ cn_cl.open /\ cn_cl.owed # <<>>
    /\ cn_up' = Append(cn_up, Head(cn_cl.owed))
    /\ cn_cl' = [cn_cl EXCEPT !.owed = Tail(@)]
    /\ UNCHANGED <<cn_ph, cn, cn_down, cn_load>>

\* Confirm Active and the client's half of the finalization, unprompted
ClientActivates ==
    LET keys == [i \in 1 .. cn_load.keys |-> [t |-> "PersistentKeys"]]
        all == <<[t |-> "ConfirmActive"], [t |-> "Synchronize"], [t |-> "Cooperate"],
                 [t |-> "RequestControl"]>> \o keys \o <<[t |-> "FontList"]>>
    IN Hears("demand", "DemandActive", TRUE, [To("active") EXCEPT !.size = Heard.size],
             [i \in DOMAIN all |-> send_send_data(RDP_MCS_IO_CHANNEL_ID, all[i])])

\* What asks nothing of it
ClientIgnores ==
    /\ cn_cl.open /\ cn_down # <<>>
    /\ Heard.t \in {"BwStart", "BwPayload", "NetcharResult", "License", "Synchronize", "Cooperate",
                    "GrantedControl", "FontMap", "FpSynchronize", "PointerDefault", "Closed"}
    /\ cn_down' = Tail(cn_down)
    /\ cn_cl' = IF Heard.t = "Closed" THEN [cn_cl EXCEPT !.open = FALSE] ELSE cn_cl
    /\ UNCHANGED <<cn_ph, cn, cn_up, cn_load>>

ClientLeaves ==
    /\ cn_cl.open /\ cn_load.leaves /\ cn_cl.st # "idle"
    /\ cn_cl' = [cn_cl EXCEPT !.st = "left", !.open = FALSE]
    /\ UNCHANGED <<cn_ph, cn, cn_up, cn_down, cn_load>>

ClientStep ==
    \/ ClientConnects \/ ClientGetsCC \/ ClientTlsUp \/ ClientGetsChallenge \/ ClientGetsPubKey
    \/ ClientGetsResponse \/ ClientAttached \/ ClientJoined \/ ClientProbed \/ ClientActivates
    \/ ClientReplies \/ ClientIgnores

-----------------------------------------------------------------------------

ConnInit ==
    /\ cn_load \in ConnLoads
    /\ cn_ph = "cr" /\ cn_up = <<>> /\ cn_down = <<>>
    /\ cn = [use_nla |-> FALSE, neg |-> Nil, nonce |-> Nil, chal |-> Nil, key |-> Nil,
             nla_user |-> "", size |-> Nil, early |-> {}, svc |-> [s \in StaticChannels |-> 0], msg |-> 0,
             joins |-> 0, info |-> Nil, ci_pw |-> Nil, rate |-> DefaultRate, tries |-> 0,
             keys |-> 0, presented |-> Nil]
    /\ cn_cl = [st |-> "idle", open |-> TRUE, selected |-> Nil, key |-> Nil, ids |-> <<>>, msg |-> 0,
                joined |-> 0, owed |-> <<>>, size |-> Nil]

ConnNext == WorkerStep \/ ClientStep \/ ClientLeaves

ConnSpec == ConnInit /\ [][ConnNext]_<<conn_vars, cn_load>>

\* The worker runs, poll returns, and the client says what it has to.
ConnFairness == WF_conn_vars(WorkerStep) /\ WF_conn_vars(ClientStep)

-----------------------------------------------------------------------------
(* Properties                                                               *)

Phases == {"cr", "tls", "negotiate", "authenticate", "authinfo", "initial", "erect", "attach",
           "join", "rtt", "bw", "confirm", "final", "login", "greeter", "proxy", "closed"}

\* Types of the connection's state: phases, channel ids and counters are in
\* the ranges rdp_conn_run gives them.
ConnTypeOK ==
    /\ cn_ph \in Phases
    /\ \A s \in StaticChannels : cn.svc[s] \in {0} \cup FirstChannel .. FirstChannel + ConnMaxChannels - 1
    /\ cn.msg \in {0} \cup FirstChannel .. FirstChannel + ConnMaxChannels
    /\ cn.joins \in 0 .. MaxJoins /\ cn.tries \in 0 .. FinalizationReads
    /\ cn.keys <= cn.tries

\* Reasons to end a connection before the login dialog: the client left, asked
\* for no protocol the server speaks, has too many channels, is not in the
\* hash file or proved another password, or the manager refused the login.
Refusable ==
    \/ cn_cl.st = "left"
    \/ cn_load.protocols # Nil /\ cn_load.protocols \cap {"SSL", "HYBRID"} = {}
    \/ Len(cn_load.channels) > ConnMaxChannels
    \/ cn.use_nla /\ (lookup_nthash(NlaClient.user) # NlaClient.hash \/ ~cn_load.grants)

\* rdp_conn_run gives up on a connection, and a client on the server, only for
\* a reason: every PDU a client of the protocol sends is one the worker's next
\* read takes (conn.c steps 1 to 9), and both sides of CredSSP compute the same
\* keys, places in the RC4 stream and bindings (nla.c).
ClosedForCause == cn_ph = "closed" \/ cn_cl.st = "refused" => Refusable

\* Client and worker agree on the channels: each service the worker serves is
\* on the channel the client has under its name and has joined, and the
\* message channel is one of its own, different from all others.
ChannelsAgree ==
    cn_ph \in {"rtt", "bw", "confirm", "final", "login"} =>
        /\ \A s \in StaticChannels :
            IF \E i \in DOMAIN cn_load.channels : cn_load.channels[i] = s
            THEN cn.svc[s] \in ToSet(ToJoin)
                 /\ cn_load.channels[cn.svc[s] - FirstChannel + 1] = s
            ELSE cn.svc[s] = 0
        /\ cn.msg = cn_cl.msg
        /\ IsInjective(ToJoin)

\* The desktop the client is told of is the one the session is started with: it
\* spans the columns and rows of the client's monitors when there are several,
\* and is brought within the limits (conn.c step 3).
DesktopAgrees ==
    cn_ph \in {"final", "login", "greeter", "proxy"} =>
        LET ms == {cn_load.monitors[i] : i \in DOMAIN cn_load.monitors}
            span(lo, hi) == Cardinality(UNION {lo[m] .. hi[m] : m \in ms})
            cols == span([m \in ms |-> m.left], [m \in ms |-> m.right])
        IN /\ cn_cl.size = cn.size
           /\ cn.size.w \in RDP_DESKTOP_MIN .. RDP_DESKTOP_MAX
           /\ cn.size.h \in RDP_DESKTOP_MIN .. RDP_DESKTOP_MAX
           /\ Cardinality(ms) > 1 /\ cols \in RDP_DESKTOP_MIN .. RDP_DESKTOP_MAX
                => cn.size.w = cols

\* A session runs in the client's zone: reading back the TZ string gives the
\* offset the client declared, half hours included (sec.c rdp_tz_to_posix).
ZoneKept ==
    cn.info # Nil /\ cn.info.timezone # Nil =>
        LET tz == cn.info.timezone
            minutes(o) == (IF o.neg THEN -1 ELSE 1) * (o.h * 60 + o.m)
            z == cn_load.zone
        IN /\ minutes(tz.std) = z.bias + z.std_bias
           /\ minutes(tz.std_label) = -minutes(tz.std)
           /\ tz.dst # Nil => minutes(tz.dst) = z.bias + z.dst_bias

\* The client's finalization does not leak into what reads the stream next
\* (the greeter and the proxy loop): when it ends, nothing of it is left to
\* read and every list of cache keys has been taken in.
FinalizationRead ==
    cn_ph \in {"login", "greeter", "proxy"} /\ cn_cl.st = "active" =>
        cn_up = <<>> /\ cn.keys = cn_load.keys

\* The rate set from a probe is within the encoder's limits, and above the
\* floor it is no more than 85% of what the client can have received.
RateSound ==
    cn.rate # DefaultRate =>
        /\ cn.rate \in 1000 .. 30000
        /\ \/ cn.rate = 1000
           \/ cn.rate * cn_load.link.delta * 100
                <= 85 * 8 * Min({cn_load.link.bytes, AUTODETECT_PROBE_BYTES})

\* At the end of the sequence worker and client mean the same thing, though each
\* computed it for itself: channels, desktop, zone, rate, and the place in the
\* stream from which input is read (rdp_conn_run).
EndsAgree == ChannelsAgree /\ DesktopAgrees /\ ZoneKept /\ RateSound /\ FinalizationRead

\* The password the manager is asked to check is the client's own, or "x" for
\* none (conn.c, auto-login).
PresentsPassword ==
    cn.presented # Nil => cn.presented = IF cn_load.password THEN "password" ELSE "x"

\* No connection waits for ever: worker and client never both wait for the
\* other, whatever the client asks for and whether or not it answers the probe.
ConnectionDecided ==
    cn_cl.st # "idle" ~> cn_ph \in {"greeter", "proxy", "closed"}
=============================================================================
