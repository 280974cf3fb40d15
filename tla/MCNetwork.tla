----------------------------- MODULE MCNetwork -----------------------------
(***************************************************************************)
(* What stands between games and networks, on small instances: the           *)
(* encodings, the Meshtastic transport, the lobby, and the hub that many       *)
(* players share. One of them runs, the others are at rest. Browsers are alike. *)
(***************************************************************************)
EXTENDS Radio, Lobby, Hub, Codec, TLC

VARIABLE part

(* Long and short texts: wide characters and blanks on either side of where  *)
(* the clamp cuts.                                                          *)
MCTexts == {<<>>, <<1, 0, 3>>, <<1, 1, 1, 1, 0, 0, 3, 3, 0, 1>>, <<4, 4, 4, 4, 4, 4, 1>>,
            <<1, 1, 1, 1, 1, 1, 1, 1, 1, 1, 1>>}

(* A message of every type, with empty and full fields; notes with all that   *)
(* has a meaning on a line: blank, newline, percent, dash, tab.              *)
MCNotes == {<<>>, <<97>>, <<45>>, <<97, 32, 98>>, <<10>>, <<37, 50, 48>>, <<37, 32>>, <<97, 9, 98>>,
            <<9>>, <<45, 45>>, <<45, 13, 98>>}
MCMsg(t, fields) == [t |-> t, gid |-> <<1, 16>>, ply |-> 300, fields |-> fields]
MCMessage ==
  { MCMsg(t, <<>>) : t \in {"ACCEPT", "RESIGN", "DRAW_OFFER", "DRAW_ACCEPT", "SYNC_REQUEST"} }
  \cup { MCMsg(t, <<text>>) : t \in {"DECLINE", "CHAT"}, text \in MCNotes }
  \cup { MCMsg("INVITE", <<<<99, 52>>, <<102>>, text>>) : text \in MCNotes }
  \cup { MCMsg("MOVE", <<move, <<0, 255>>>>) : move \in {<<3>>, <<1, 17>>} }
  \cup { MCMsg("REJECT", <<reason, <<9>>>>) : reason \in {1, 5} }
  \cup { MCMsg("SYNC_STATE", <<0, 2, <<9>>, list>>) :
           list \in {<<>>, <<<<3>>>>, <<<<1, 17>>, <<44>>, <<2>>>>} }
MCCard ==
  { [public_key |-> <<k, 1>>, games |-> games, name |-> name, published_at |-> 70000] :
      k \in {1, 2}, games \in {{}, {0, 2}}, name \in {<<>>, <<97>>, <<97, 98, 99>>} }
MCTyped == {<<99, 52>>, <<32, 1>>, <<195, 169>>, <<70, 65, 1, 16, 0, 3>>}

(* Symbols of their own, above the bytes, that tell the bodies apart.        *)
MCSign(body) ==
  LET Weight(i) == 1 + ((i * i) % 17)
      sum[i \in 0..Len(body)] == IF i = 0 THEN 256 ELSE sum[i - 1] + Weight(i) * body[i]
  IN  <<sum[Len(body)], sum[Len(body)] + Len(body)>>

Symmetry == Permutations(Browser)

networkVars == <<part, radioVars, lobbyVars, hubVars, codecVars>>

Init ==
  /\ part \in {"codec", "radio", "lobby", "hub"}
  /\ CodecInit /\ RadioInit /\ LobbyInit /\ HubInit

Next ==
  \/ part = "codec" /\ CodecNext /\ UNCHANGED <<part, radioVars, lobbyVars, hubVars>>
  \/ part = "radio" /\ RadioNext /\ UNCHANGED <<part, codecVars, lobbyVars, hubVars>>
  \/ part = "lobby" /\ LobbyNext /\ UNCHANGED <<part, codecVars, radioVars, hubVars>>
  \/ part = "hub" /\ HubNext /\ UNCHANGED <<part, codecVars, radioVars, lobbyVars>>

Spec == Init /\ [][Next]_networkVars
=============================================================================
