----------------------------- MODULE BssCipher -----------------------------
(***************************************************************************)
(* What an access point offers, as BssCipherParse reads it from its WPA    *)
(* and RSN elements, and whether BssTableSsidSort takes it as a candidate  *)
(* (Module/mlme.c).                                                        *)
(*                                                                         *)
(* Ciphers have the numbers of NDIS_802_11_WEP_STATUS: the code compares   *)
(* them with > and <, and WEP comes before "disabled".                     *)
(***************************************************************************)
EXTENDS Integers, SequencesExt

Wep == 0
Disabled == 1
Tkip == 4
Aes == 6

\* The type of a cipher suite; any other type is unknown.
Suite(type) ==
    CASE type \in {1, 5} -> Wep [] type = 2 -> Tkip [] type = 4 -> Aes [] OTHER -> Disabled

NoSecurity == [group |-> Disabled, pair |-> Disabled, aux |-> Disabled, mix |-> FALSE]

\* What the entry holds before the elements are read.
Unparsed(privacy, adhoc) ==
    [wep |-> IF privacy THEN Wep ELSE Disabled, auth |-> "open", akms |-> {}, adhoc |-> adhoc,
     WPA |-> NoSecurity, WPA2 |-> NoSecurity]

\* Mutant of AddPairCipher: the displaced cipher is forgotten.
ForgetDisplaced(s, type) ==
    LET cipher == Suite(type)
    IN  IF cipher > s.pair THEN [s EXCEPT !.pair = cipher] ELSE [s EXCEPT !.aux = cipher]

\* Two ciphers are kept: the strongest so far, and the one that came last or was displaced.
AddPairCipher(s, type) ==
    LET cipher == Suite(type)
    IN  IF cipher > s.pair THEN [s EXCEPT !.pair = cipher, !.aux = s.pair]
        ELSE [s EXCEPT !.aux = cipher]

ParseSuites(s, ie) ==
    LET group == IF Suite(ie.group) = Disabled THEN s.group ELSE Suite(ie.group)
    IN  FoldLeft(AddPairCipher, [s EXCEPT !.group = group], ie.pairs)

AkmName(eid, akm) ==
    IF eid = "WPA" THEN IF akm = 1 THEN "WPA" ELSE "WPAPSK"
    ELSE IF akm = 1 THEN "WPA2" ELSE "WPA2PSK"

ParseAkms(b, ie) ==
    LET known == SelectSeq(ie.akms, LAMBDA akm : akm \in {1, 2})
    IN  [b EXCEPT !.akms = @ \cup {AkmName(ie.eid, akm) : akm \in ToSet(known)},
                  !.auth = IF known = <<>> THEN @ ELSE AkmName(ie.eid, Last(known))]

\* In an IBSS the group cipher stands for a missing second pairwise one.
AuxOfGroup(s) == IF s.aux = Disabled THEN s.group ELSE s.aux

Mixed(s) == s.mix \/ s.group # s.pair

ParseWpa(b, ie) ==
    LET s == ParseSuites(b.WPA, ie)
        a == ParseAkms(b, ie)
    IN  IF b.adhoc
        THEN [a EXCEPT !.auth = "WPANone", !.wep = s.group,
                       !.WPA = [s EXCEPT !.aux = AuxOfGroup(s), !.mix = Mixed(s)]]
        ELSE [a EXCEPT !.wep = s.pair, !.WPA = [s EXCEPT !.mix = Mixed(s)]]

ParseRsn(b, ie) ==
    LET s == ParseSuites(b.WPA2, ie)
        a == ParseAkms(b, ie)
        w == [b.WPA EXCEPT !.aux = AuxOfGroup(s), !.group = s.group]
    IN  IF ~ie.akmOurs THEN [b EXCEPT !.WPA2 = s]
        ELSE [a EXCEPT !.wep = s.pair, !.WPA2 = [s EXCEPT !.mix = Mixed(s)],
                       !.auth = IF b.adhoc THEN "WPANone" ELSE @,
                       !.WPA = IF b.adhoc THEN w ELSE @]

\* An element of another vendor or version is skipped.
ParseElement(b, ie) ==
    IF ~ie.ours THEN b ELSE IF ie.eid = "WPA" THEN ParseWpa(b, ie) ELSE ParseRsn(b, ie)

BssCipherParse(privacy, adhoc, ies) == FoldLeft(ParseElement, Unparsed(privacy, adhoc), ies)

(***************************************************************************)
(* The test of BssTableSsidSort for a configuration [auth, wep]; "any" is  *)
(* the branch for an empty SSID.                                           *)
(***************************************************************************)
RTMPCheckAKM(auth, b) == auth \in b.akms

\* Mutant of CipherFits: the pairwise ciphers are not looked at.
GroupFits(wep, s) == (~s.mix => wep = s.group) /\ wep >= s.group

CipherFits(wep, s) ==
    /\ ~s.mix => wep = s.group
    /\ wep >= s.group
    /\ wep = Tkip => wep \in {s.pair, s.aux}

Fits(cfg, b, any) ==
    CASE cfg.auth \in {"WPA", "WPAPSK"} -> RTMPCheckAKM(cfg.auth, b) /\ CipherFits(cfg.wep, b.WPA)
      [] cfg.auth \in {"WPA2", "WPA2PSK"} -> RTMPCheckAKM(cfg.auth, b) /\ CipherFits(cfg.wep, b.WPA2)
      [] cfg.auth = "WPANone" -> ~any /\ b.auth = cfg.auth
      [] OTHER -> cfg.wep = b.wep

(***************************************************************************)
(* One element list and one configuration per behaviour: the functions     *)
(* above have no state.                                                    *)
(***************************************************************************)
CONSTANT MaxCiphers     \* bound: pairwise ciphers in an element

ASSUME CipherAssumption == MaxCiphers \in Nat

VARIABLE cipherCase

Types == {0, 1, 2, 4}
Element ==
    [eid : {"WPA", "RSN"}, ours : {TRUE}, akmOurs : BOOLEAN, group : Types,
     pairs : SeqOf({1, 2, 4}, MaxCiphers) \ {<<>>}, akms : {<<>>, <<1>>, <<2>>, <<1, 2>>}]

Config ==
    [auth : {"WPA", "WPAPSK", "WPANone", "WPA2", "WPA2PSK"}, wep : {Tkip, Aes}]
    \cup [auth : {"open"}, wep : {Wep, Disabled}]

Offers(case) == BssCipherParse(case.privacy, case.adhoc, case.ies)

\* A second element, of WPA2-PSK with AES or of another version.
OtherElement(ours) ==
    [eid |-> "RSN", ours |-> ours, akmOurs |-> TRUE, group |-> 4, pairs |-> <<4>>, akms |-> <<2>>]

CipherInit ==
    \E e \in Element, privacy, adhoc, other \in BOOLEAN :
        cipherCase = [ies |-> <<e, OtherElement(other)>>, privacy |-> privacy, adhoc |-> adhoc]

CipherSpec == CipherInit /\ [][FALSE]_cipherCase
=============================================================================
