--------------------------- MODULE BssCipherProps ---------------------------
(***************************************************************************)
(* What the entry of an access point says of its ciphers.                  *)
(***************************************************************************)
EXTENDS BssCipher

Listed(ie) == {Suite(ie.pairs[i]) : i \in DOMAIN ie.pairs}

\* TKIP and AES are both kept when an element lists at most two pairwise ciphers, in
\* either order (mlme.c:4051): a station of either cipher finds the access point.  WEP is
\* numbered below "disabled" and gets lost when it comes first.
PairCiphersKept ==
    LET ie == cipherCase.ies[1]
        s == IF ie.eid = "WPA" THEN Offers(cipherCase).WPA ELSE Offers(cipherCase).WPA2
    IN  ~cipherCase.adhoc /\ Len(ie.pairs) <= 2 /\ (ie.eid = "RSN" => ~cipherCase.ies[2].ours)
            => Listed(ie) \ {Wep} \subseteq {s.pair, s.aux}

\* A candidate that the station takes for its WPA mode and cipher lists that cipher among
\* its pairwise ones, though AES is let pass "without question" (mlme.c:4654): the group
\* cipher decides, as long as it is TKIP or AES and, as 802.11i has it, none of the
\* pairwise ones is weaker.
CandidateSpeaksOurCipher ==
    LET b == Offers(cipherCase)
    IN  ~cipherCase.adhoc =>
        \A cfg \in {c \in Config : c.auth # "open" /\ Fits(c, b, FALSE)} :
            LET wpa == cfg.auth \in {"WPA", "WPAPSK"}
                group == IF wpa THEN b.WPA.group ELSE b.WPA2.group
                read == {ie \in ToSet(cipherCase.ies) :
                            ie.ours /\ ie.eid = (IF wpa THEN "WPA" ELSE "RSN")}
            IN  /\ group \in {Tkip, Aes}
                /\ \A ie \in read : \A cipher \in Listed(ie) : cipher >= group
                => \E ie \in read : cfg.wep \in Listed(ie)
=============================================================================
