----------------------------- MODULE MCExtractors -----------------------------
(* Every call tree of at most three calls (one call; a chain of two or     *)
(* three; a call with two children) built from four call kinds, each under *)
(* four receipts, the untraced transaction under each receipt, and         *)
(* untraced contract creations whose input is every code of at most three  *)
(* bytes and a few proxy codes, with and without "0x", and trace files     *)
(* with one or two storage changes, read by the validation scripts'        *)
(* loader. The traced ones are built from tracer JSON by _build_trace, and *)
(* each is also loaded back from its saved JSON.                           *)
EXTENDS TraceBuild, TLC

CONSTANTS MalformedV, Aave, Other, FlashSel, CallbackSel, TransferSel, TransferTopicV,
          AaveEvent, NoCallV, NoTraceV, NoCodeV, AbsentV, EmptyJsonV

Node(type, value, gas, used, sel, amount, to) ==
    [type |-> type, value |-> value, gas |-> gas, gasUsed |-> used,
     sel |-> sel, amount |-> amount, to |-> to, calls |-> <<>>]

(* Tracer nodes: a flashLoan to a known provider carrying value and an    *)
(* amount; a delegatecall into a callback, with no value key; a transfer  *)
(* with no type and no value key; a value-carrying CREATE2 with a short   *)
(* input and no gas keys.                                                  *)
Kinds == {Node("CALL", 1, 10, 9, FlashSel, 5, Aave),
          Node("DELEGATECALL", AbsentV, 8, 8, CallbackSel, 0, Other),
          Node(AbsentV, AbsentV, 4, 1, TransferSel, 0, Other),
          Node("CREATE2", 1, AbsentV, AbsentV, "short", 0, Other)}

With(c, kids) == [c EXCEPT !.calls = kids]

Trees ==
    Kinds
    \cup {With(a, <<b>>) : a, b \in Kinds}
    \cup {With(a, <<With(b, <<c>>)>>) : a, b, c \in Kinds}
    \cup {With(a, <<b, c>>) : a, b, c \in Kinds}

FlashEvent == [address |-> Aave, topic |-> AaveEvent, amount |-> 7, word |-> TRUE]
Transfer(a) == [address |-> Other, topic |-> TransferTopicV, amount |-> a, word |-> TRUE]
ShortTransfer == [address |-> Other, topic |-> TransferTopicV, amount |-> 0, word |-> FALSE]

(* No logs; a flash-loan event; two Transfers of 3 and 1 (a coefficient  *)
(* of variation of 1/2); a Transfer whose data holds no word after a      *)
(* flash-loan event.                                                       *)
Receipts == {<<>>, <<FlashEvent>>, <<Transfer(3), Transfer(1)>>,
             <<FlashEvent, ShortTransfer>>}

(* PROXY_PATTERNS, the storage slots as bytes.                            *)
Eip1967 == <<54, 8, 148, 161, 59, 161, 163, 33, 6, 103, 200, 40, 73, 45, 185, 141,
             202, 62, 32, 118, 204, 55, 53, 169, 32, 163, 202, 80, 93, 56, 43, 188>>
Eip1822 == <<197, 241, 111, 15, 204, 99, 159, 164, 138, 105, 71, 131, 109, 152, 80, 245,
             4, 121, 133, 35, 191, 140, 154, 58, 135, 213, 135, 108, 246, 34, 188, 247>>
Transparent == <<181, 49, 39, 104, 74, 86, 139, 49, 115, 174, 19, 185, 248, 166, 1, 110,
                 36, 62, 99, 182, 232, 238, 17, 120, 214, 167, 23, 133, 11, 93, 97, 3>>
Digits(b) == Nibbles([prefixed |-> FALSE, bytes |-> b])
MCProxySlots == <<[type |-> "eip1967", digits |-> Digits(Eip1967)],
                  [type |-> "eip1822", digits |-> Digits(Eip1822)],
                  [type |-> "transparent", digits |-> Digits(Transparent)]>>
ClonePrefix == <<54, 61, 61, 55, 61, 61, 61, 54, 61>>
MCCloneDigits == Digits(ClonePrefix)

(* Code bytes: PUSH1, PUSH2, SELFDESTRUCT, DELEGATECALL, and 0x0f, 0xf0   *)
(* (whose digits "0ff0" hold "ff" across a byte boundary).  Codes of up  *)
(* to two bytes come with and without "0x", codes of three without.     *)
Alphabet == {96, 97, 255, 244, 15, 240}
ShortCodes == {<<>>} \cup {<<a>> : a \in Alphabet} \cup {<<a, b>> : a, b \in Alphabet}
(* A PUSH32 of each proxy slot, the EIP-1167 prefix on its own, and the    *)
(* full EIP-1167 runtime (PUSH20 of a zero address, then DELEGATECALL).    *)
LongCodes == {<<127>> \o Eip1967, <<127>> \o Eip1822, <<127>> \o Transparent,
              ClonePrefix \o <<0>>,
              ClonePrefix \o <<115>> \o [i \in 1..20 |-> 0]
                \o <<90, 244, 61, 130, 128, 62, 144, 61, 145, 96, 43, 87, 253, 91, 243>>}

(* Storage changes of a loaded trace: an account written as checksummed  *)
(* or lower-case text, or another account; slot 0 in short or 64-digit    *)
(* text, slot 12, or a slot that is not hex; values 0, 1, 3 or not hex.   *)
Addrs == {[id |-> Aave, upper |-> u] : u \in BOOLEAN} \cup {[id |-> Other, upper |-> FALSE]}
Slots == {[val |-> 0, padded |-> p] : p \in BOOLEAN}
         \cup {[val |-> 12, padded |-> FALSE], [val |-> MalformedV, padded |-> FALSE]}
Change(a, s, p, n) == [address |-> a, slot |-> s, prev |-> p, new |-> n]
Changes1 == {Change(a, s, p, n) : a \in Addrs, s \in Slots, p, n \in {0, 1, 3, MalformedV}}
Changes2 == {Change(a, s, v[1], v[2]) : a \in Addrs, s \in {[val |-> 0, padded |-> p] : p \in BOOLEAN},
                                        v \in {<<0, 3>>, <<1, 0>>}}
Storages == {<<c>> : c \in Changes1} \cup {<<c, d>> : c, d \in Changes2}

(* A trace whose tracer JSON was {}, with a transaction input that is no *)
(* flash loan.                                                            *)
Untraced(l, h, code) == BuildTrace(EmptyJsonV, l, h, code, "none")

MCTraces ==
    {BuildTrace(j, l, FALSE, NoCodeV, "none") : j \in Trees, l \in Receipts}
    \cup {LoadTrace(SaveTrace(BuildTrace(j, l, FALSE, NoCodeV, "none"))) : j \in Trees, l \in Receipts}
    \cup {Untraced(l, h, NoCodeV) : l \in Receipts, h \in BOOLEAN}
    \cup {Untraced(<<>>, FALSE, [prefixed |-> p, bytes |-> b]) :
              p \in BOOLEAN, b \in ShortCodes \cup LongCodes}
    \cup {Untraced(<<>>, FALSE, [prefixed |-> FALSE, bytes |-> <<a, b, c>>]) :
              a, b, c \in Alphabet}
    \cup {LoadTraceFromJson(SaveTrace([Untraced(<<>>, FALSE, NoCodeV) EXCEPT !.storage = st])) :
              st \in Storages}

MCProviderOf == Aave :> "aave_v2"
MCFlashEventTopics == AaveEvent :> "aave_v2_flashloan"
=============================================================================
