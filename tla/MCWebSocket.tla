---------------------------- MODULE MCWebSocket ----------------------------
(***************************************************************************)
(* Instances of WebSocket for TLC: a client connection (it masks) with a   *)
(* key of 0 and a key with every byte set, so masking both happens and is *)
(* skipped; messages of one, two and 126 bytes.                            *)
(***************************************************************************)
EXTENDS WebSocket

MCKeys == {NoKey, <<1, 128, 7, 255>>}

\* 126 bytes: the shortest payload with a 16-bit length
Long == [i \in 1..126 |-> i]

\* text, binary through both sendBinary() overloads; then a closeWebsocket()
MCData == << <<"text", <<1, 2>>>>, <<"binstr", Long>>, <<"binary", <<3>>>> >>
MCProgs == {MCData, MCData \o << <<"close">> >>}

\* a frame a peer of another implementation writes
Raw(op, fin, data) == <<"frame", op, fin, data>>

\* a ping with application data (RFC 6455 5.5.2), then a message
MCPingProgs == { << <<"ping", <<5>>>>, <<"text", <<1>>>> >> }
\* a message in two fragments
MCFragProgs == { << Raw(FRAME_TEXT, FALSE, <<1>>), Raw(FRAME_CONTINUATION, TRUE, <<2>>) >> }
\* a message in three fragments
MCFrag3Progs == { << Raw(FRAME_TEXT, FALSE, <<1>>), Raw(FRAME_CONTINUATION, FALSE, <<2>>),
                     Raw(FRAME_CONTINUATION, TRUE, <<3>>) >> }
\* a ping between the fragments of a message (RFC 6455 5.4)
MCCtlProgs == { << Raw(FRAME_TEXT, FALSE, <<1>>), Raw(FRAME_PING, TRUE, <<>>),
                   Raw(FRAME_CONTINUATION, TRUE, <<2>>) >> }
\* an empty message, then one
MCEmptyProgs == { << <<"text", <<>>>>, <<"text", <<1>>>> >> }
\* a message, then closeWebsocket()
MCCloseProgs == { << <<"text", <<1>>>>, <<"close">> >> }
\* two messages
MCTwoProgs == { << <<"text", <<1>>>>, <<"binary", <<2>>>> >> }
=============================================================================
