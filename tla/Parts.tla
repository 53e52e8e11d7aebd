------------------------------- MODULE Parts -------------------------------
(***************************************************************************)
(* Parts of the device that have no fairness to be checked under and no    *)
(* recursive operators: the HTTP server (Serving), the display driver, the *)
(* responder of mDNS, its browses and what its searches collect, and the   *)
(* strings of cJSON, with their constants, what these are assumed to be,   *)
(* and their properties.  They share no state.                             *)
(***************************************************************************)
EXTENDS Serving

CONSTANTS
  OLED_WIDTH, OLED_PAGES, GLYPH_WIDTH, PageRows, ColumnOffset,    \* Oled
  ByteRange, Glyphs, NoGlyph, Texts, Noise, MaxRestarts,
  Chains, Found, FoundOn, FoundPorts, FoundTexts, FoundAddresses, \* MdnsResults
  None,
  Browses, Browsed, TypeOf, BrowsedOn, NoHost, BrowsedAddresses, BrowsedTexts,    \* MdnsBrowse
  BrowsePackets, BrowseQueue,
  Netifs, Offered, OwnHost, MaxOffered, MaxWaiting, MaxRenames,   \* MdnsResponder
  TextPieces, MaxPieces                                           \* CJsonString

VARIABLES
  oled_buffer, ram, chip, at, restarts,
  asked, results, heard,
  browse, told, errands, cache,
  host_named, default_named, offered, own_named, pcbs, renames,
  typed

display == <<oled_buffer, ram, chip, at, restarts>>
answers == <<asked, results, heard>>
browses == <<browse, told, errands, cache>>
responder_state == <<host_named, default_named, offered, own_named, pcbs, renames>>

Display == INSTANCE Oled
Answers == INSTANCE MdnsResults WITH
  Instances <- Found, Hosts <- FoundOn, Ports <- FoundPorts, Texts <- FoundTexts,
  Addresses <- FoundAddresses
Browsing == INSTANCE MdnsBrowse WITH
  Instances <- Browsed, Hosts <- BrowsedOn, Addresses <- BrowsedAddresses,
  Values <- BrowsedTexts, Packets <- BrowsePackets, MDNS_ACTION_QUEUE_LEN <- BrowseQueue,
  actions <- errands
Responder == INSTANCE MdnsResponder WITH
  Ifs <- Netifs, Services <- Offered, Host <- OwnHost, MAX_SERVICES <- MaxOffered,
  hostname <- host_named, instance <- default_named, services <- offered,
  own <- own_named, net <- pcbs
Strings == INSTANCE CJsonString WITH Pieces <- TextPieces

(* The commands for the page are eight, and the one for the column says 2  *)
(* whatever the offset (oled.c:113-118).                                    *)
ASSUME DisplayAssumption ==
  /\ {OLED_WIDTH, OLED_PAGES, PageRows, ByteRange} \subseteq Nat \ {0}
  /\ GLYPH_WIDTH \in Nat /\ OLED_PAGES <= 8 /\ ColumnOffset = 2
  /\ Texts \subseteq Seq(Glyphs \cup {NoGlyph})

(* NULL is no name, host or port.                                           *)
ASSUME AnswersAssumption ==
  /\ None \notin Found \cup FoundOn \cup FoundPorts
  /\ \A chain \in Chains : \A n \in DOMAIN chain : n \in Nat /\ chain[n].max \in Nat

(* Packets are records.                                                     *)
ASSUME BrowsingAssumption ==
  BrowseQueue \in Nat /\ BrowsePackets \subseteq Seq(Browsing!Record)

(* There may be MDNS_MAX_SERVICES services (mdns_responder.c:166).  An      *)
(* interface has at most one duplicate, and that one has it: the Wi-Fi      *)
(* station and the Ethernet (mdns_netif.c:319-335).                         *)
ASSUME ResponderAssumption ==
  /\ OwnHost \notin Offered /\ MaxOffered \in Nat
  /\ \A i, j, k \in Netifs : i = j \/ j = k \/ i = k

(* A string ends where a byte is 0.                                         *)
ASSUME StringsAssumption == \A p \in TextPieces : p.bytes \in Seq(1 .. 255)

-----------------------------------------------------------------------------
(* Properties *)

(* Wherever an earlier run broke off, a flush makes the panel show the      *)
(* framebuffer, drawing keeps to its row, and the chip is configured as     *)
(* commented and dark meanwhile: Oled, oled.c:113-142,192-265.              *)
PanelShows ==
  [][/\ Display!FlushCopies /\ Display!DrawsInRow
     /\ Display!Configured' /\ Display!DarkDuringInit']_display

(* A search's results are true of what was heard, and none is double:       *)
(* MdnsResults, mdns_querier.c:541-757.                                     *)
ResultsTrue == Answers!ResultsTrue

(* A running browse was last told what the cache knows, and the cache keeps *)
(* nothing without a use: MdnsBrowse, mdns_cache.c:408-569,716-977.         *)
ToldIsCached == Browsing!ToldIsCached /\ Browsing!NothingKept

(* The responder answers for a name only after it has asked for it three    *)
(* times, a probe asks for what the interface believes it does, and an      *)
(* interface is silent as a duplicate only while the other one is at work:  *)
(* MdnsResponder, mdns_pcb.c:155-300, mdns_send.c:1779-1831.                *)
AnswersForItsOwn ==
  /\ Responder!AnswersForItsOwn /\ Responder!ProbesAsBelieved
  /\ Responder!DuplicateCovered

(* A string that is printed has the length counted for it and reads back,   *)
(* a literal has room for what it is read as, and is none if it is cut off: *)
(* CJsonString, cJSON.c:666-951,954-1073.                                   *)
StringsReadBack ==
  Strings!PrintedReadsBack /\ Strings!RoomSuffices /\ Strings!CutIsRejected
=============================================================================
