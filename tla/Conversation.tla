----------------------------- MODULE Conversation -----------------------------
(***************************************************************************)
(* The messages of a connection, as bytes: what the coffee maker           *)
(* advertises, what the client's requests become on the way to it, and     *)
(* what the library stores of its answers (CoffeeMaker,                    *)
(* src/jutta_bt_proto/CoffeeMaker.cpp).                                    *)
(*                                                                         *)
(* One thread, and the only call that fails is the read of the about data  *)
(* at the connect, which leaves those of an earlier coffee maker; the      *)
(* others are the subject of CoffeeMaker and Statistics.                   *)
(*                                                                         *)
(* The coffee maker is external.  It encodes its values and takes its      *)
(* commands the way README.md of the repository says, the product mask of  *)
(* the statistics command and the 17 characters of a version included:     *)
(* where the library does not do its part of it, the properties say what   *)
(* comes of it.                                                            *)
(***************************************************************************)
EXTENDS Requests, Answers, MachineFile

CONSTANTS
    Machines,  \* article number -> machine file, its element JOE
    Makers,    \* coffee makers: [id, blueFrog, version, products, counters, percentages]
    Statuses,  \* the sets of status bits a coffee maker may report
    TxData     \* what a client sends with write_tx()

(* The values that fit into an advertisement.                              *)
UInt16 == {n \in Nat: n <= 65535}
UInt24 == {n \in Nat: n <= 16777215}
ProductionDate == [y: 1990..2117, m: 0..15, d: 0..31]
Identity ==
    [key: Byte, bfMajVer: Byte, bfMinVer: Byte, articleNumber: UInt16, machineNumber: UInt16,
     serialNumber: UInt16, machineProdDate: ProductionDate, machineProdDateUCHI: ProductionDate,
     unusedSecond: Byte, statusBits: Byte]

(* The about data have room for 8 and 17 characters (README.md:76-77), a   *)
(* counter is of two bytes, three for the products.                        *)
Maker ==
    [id: Identity,
     blueFrog: {s \in Seq(Byte \ {0}): Len(s) <= 8},
     version: {s \in Seq(Byte \ {0}): Len(s) <= 17},
     products: Seq(UInt24), counters: Seq(UInt16), percentages: Seq(Byte)]

ASSUME MakersAssumption == Makers \subseteq Maker

StatusLength == 2   \* bytes of status bits in an answer

ASSUME StatusesAssumption == Statuses \subseteq SUBSET (0..(8 * StatusLength - 1))

\* write() overrides the first byte: there has to be one.
Message == Seq(Byte) \ {<<>>}

ASSUME TxDataAssumption == TxData \subseteq Message

(* The code and the command of every product are hexadecimal: the          *)
(* assertion on the digits in get_hex_char_val() holds for the machine     *)
(* files.                                                                  *)
IsHexString(hex) == hex \in Seq(Nat) /\ hex # <<>> /\ ~HexAsserts(hex)

IsJoe(j) ==
    /\ Len(j.products) \in Nat /\ DOMAIN j.products = 1..Len(j.products)
    /\ \A i \in DOMAIN j.products:
           IsHexString(j.products[i].code) /\ IsHexString(to_bt_command(j.products[i]))
    /\ \A alert \in j.alerts: alert.bit \in Nat
    /\ j.counters \in Nat /\ j.percentages \in Nat

(* What a machine file has to look like for to_bt_command(): every string  *)
(* fills one slot, every place is one of the slots, no step becomes zero   *)
(* in a byte.  Values and steps that do not fit into a byte are cut.       *)
IsHexByte(hex) == hex \in [1..2 -> Nat] /\ IsHexChar(hex[1]) /\ IsHexChar(hex[2])
IsArgument(a) == a = <<a[1], a[2]>> /\ (a[1] = "F" => a[2] \in 1..17)
IsItems(o) == "Default" \in DOMAIN o.attr /\ IsHexByte(o.attr.Default)
IsMinMax(o) ==
    /\ {"Value", "Step"} \subseteq DOMAIN o.attr /\ "Default" \notin DOMAIN o.attr
    /\ o.attr.Value \in Int /\ o.attr.Step \in Int /\ o.attr.Step % 256 # 0

ItemsTags == {"COFFEE_STRENGTH", "TEMPERATURE"}
MinMaxTags == {"WATER_AMOUNT", "MILK_FOAM_AMOUNT"}

IsProduct(e) ==
    /\ IsHexByte(e.attr.Code)
    /\ \A tag \in ItemsTags \cup MinMaxTags:
           LET options == ChildElements(e, tag)
           IN  options # <<>> =>
                   /\ options = <<options[1]>> /\ IsArgument(options[1].attr.Argument)
                   /\ IF tag \in ItemsTags THEN IsItems(options[1]) ELSE IsMinMax(options[1])

ProductElements(joeElement) == ChildElements(FirstChildElement(joeElement, "PRODUCTS"), "PRODUCT")

ASSUME ProductsAssumption ==
    \A a \in DOMAIN Machines:
        \A i \in DOMAIN ProductElements(Machines[a]): IsProduct(ProductElements(Machines[a])[i])

ASSUME MachinesAssumption == \A a \in DOMAIN Machines: IsJoe(load_joe(Machines[a]))

VARIABLES
    maker,           \* coffee maker: which of Makers is connected
    status,          \* coffee maker: the status bits that are set
    received,        \* coffee maker: the last request, decoded
    air,             \* the encoded request on its way
    asked, ordered,  \* the last request and, if it brews, the number of its product
    reading,         \* request_statistics() waits for the coffee maker
    manData, aboutData, joe, alerts, statParserMode,  \* CoffeeMaker's
    stats,           \* Joe: the values that the parsers of each mode stored
    reported,        \* the status that was read last
    introduced       \* the coffee maker whose about data were read last

external == <<maker, status, received>>
fields == <<manData, aboutData, joe, alerts, statParserMode, stats, reported,
            introduced>>
vars == <<external, air, asked, ordered, reading, fields>>

None == [none |-> TRUE]
Silence == Request("none", <<>>, FALSE)

-----------------------------------------------------------------------------
(* The coffee maker's side.                                                *)

LittleEndian(n) == <<n % 256, n \div 256>>
Power256 == <<1, 256, 65536>>
BigEndian(values, bytes) ==
    [i \in 1..(bytes * Len(values)) |->
        (values[((i - 1) \div bytes) + 1] \div Power256[bytes - ((i - 1) % bytes)]) % 256]
PackedDate(date) == (date.y - 1990) * 512 + date.m * 32 + date.d
Padded(s, n) == s \o [i \in 1..(n - Len(s)) |-> 0]

Advertisement(id) ==
    <<id.key, id.bfMajVer, id.bfMinVer, 0>> \o LittleEndian(id.articleNumber)
        \o LittleEndian(id.machineNumber) \o LittleEndian(id.serialNumber)
        \o LittleEndian(PackedDate(id.machineProdDate))
        \o LittleEndian(PackedDate(id.machineProdDateUCHI))
        \o <<id.unusedSecond, id.statusBits>>

AboutMachine(m) == [i \in 1..27 |-> 0] \o Padded(m.blueFrog, 8) \o Padded(m.version, 17)

\* The jth byte of the status, bit by bit.
StatusByte(j) ==
    LET byte[i \in 0..8] ==
            IF i = 0 THEN 0
            ELSE 2 * byte[i - 1] + (IF 8 * (j - 1) + i - 1 \in status THEN 1 ELSE 0)
    IN  byte[8]

MachineStatus == <<maker.id.key>> \o [j \in 1..StatusLength |-> StatusByte(j)]

(* The product mask of a command (README.md:212-226) has a bit for every   *)
(* four codes below 64.  The first value is the total, and a product that  *)
(* is not selected has none.                                               *)
Selects(mask, code) ==
    code < 64 => (mask[(code \div 32) + 1] \div FromHighEnd[8 - ((code \div 4) % 8)]) % 2 = 1
Masked(values, mask) ==
    [i \in 1..Len(values) |-> IF i = 1 \/ Selects(mask, i - 1) THEN values[i] ELSE 65535]

(* The statistics of the type that the received command names.             *)
StatisticsData ==
    LET type == 256 * received.data[2] + received.data[3]
        mask == <<received.data[4], received.data[5]>>
    IN  CASE type = 1 -> BigEndian(Masked(maker.products, mask), 3)
          [] type = 4 -> BigEndian(maker.counters, 2)
          [] type = 8 -> maker.percentages

(* An answer arrives encoded with the coffee maker's key.                  *)
Answer(data) == encDecBytes(encDecBytes(data, maker.id.key), manData.key)

-----------------------------------------------------------------------------
Unread == [m \in StatParseMode |-> <<>>]

Send(r, key) == air' = [r EXCEPT !.data = write(r, key)] /\ asked' = r

(* on_connected() with the parsers it leads to: parse_man_data(), which    *)
(* takes the machine file of the article number, the first heartbeat, and  *)
(* parse_about_data().  Whether the about data could be read is not looked *)
(* at: if not, the old ones stay.                                          *)
Connect(m) ==
    /\ air = Silence /\ ~reading
    /\ m.id.articleNumber \in DOMAIN Machines
    /\ maker' = m /\ received' = Silence
    /\ manData' = ManufacturerData(Advertisement(m.id))
    /\ joe' = load_joe(Machines[manData'.articleNumber])
    /\ alerts' = {} /\ reported' = {}
    /\ stats' = Unread
    /\ \/ aboutData' = AboutData(AboutMachine(m)) /\ introduced' = m
       \/ UNCHANGED <<aboutData, introduced>>
    /\ Send(stay_in_ble, manData'.key)
    /\ ordered' = 0
    /\ UNCHANGED <<status, reading, statParserMode>>

(* A request of the client, or the heartbeat thread's heartbeat.           *)
Requests ==
    {shutdown, stay_in_ble, lock, unlock, request_default_coffee}
        \cup {write_tx(data): data \in TxData}

MayAsk == joe # None /\ air = Silence /\ ~reading

ClientRequest(r) ==
    /\ MayAsk
    /\ Send(r, manData.key)
    /\ ordered' = 0
    /\ UNCHANGED <<external, reading, fields>>

ClientOrders(i) ==
    /\ MayAsk /\ i \in DOMAIN joe.products
    /\ Send(request_coffee(joe.products[i]), manData.key)
    /\ ordered' = i
    /\ UNCHANGED <<external, reading, fields>>

ClientRequestsStatistics(mode) ==
    /\ MayAsk
    /\ Send(request_statistics(mode), manData.key)
    /\ ordered' = 0
    /\ reading' = TRUE
    /\ statParserMode' = mode
    /\ UNCHANGED <<external, manData, aboutData, joe, alerts, stats, reported, introduced>>

Receive ==
    /\ air # Silence
    /\ received' = [air EXCEPT !.data = encDecBytes(air.data, maker.id.key)]
    /\ air' = Silence
    /\ UNCHANGED <<maker, status, asked, ordered, reading, fields>>

StatusChanges ==
    /\ maker # None
    /\ status' \in Statuses
    /\ UNCHANGED <<maker, received, air, asked, ordered, reading, fields>>

\* What the parser of the mode stores; for the products, the total comes first.
Parsed(mode, data) ==
    CASE mode = "MAINTENANCE_PERCENT" -> MaintenancePercentages(data, joe.percentages)
      [] mode = "MAINTENANCE_COUNTER" -> MaintenanceCounters(data, joe.counters)
      [] mode = "PRODUCT_COUNTERS" ->
             <<StatTotalCount(data)>> \o
             [i \in 1..Len(joe.products) |->
                 ProductCounter(data, code_to_size_t(from_hex_string(joe.products[i].code)))]

(* Only these reads leave something behind: of the product progress and of *)
(* RX nothing is kept, statDataReady is in Statistics.                     *)
on_characteristic_read(characteristic, data) ==
    /\ aboutData' = IF characteristic = "ABOUT_MACHINE" THEN AboutData(data) ELSE aboutData
    /\ alerts' = IF characteristic = "MACHINE_STATUS" THEN NewAlerts(data, joe.alerts) ELSE alerts
    /\ stats' = IF characteristic = "STATISTICS_DATA"
                THEN [stats EXCEPT ![statParserMode] = Parsed(statParserMode, data)]
                ELSE stats
    /\ UNCHANGED <<manData, joe, statParserMode>>

\* What the client may read at any time; the about data are not encoded.
Values ==
    [ABOUT_MACHINE |-> AboutMachine(maker), MACHINE_STATUS |-> Answer(MachineStatus),
     PRODUCT_PROGRESS |-> Answer(<<maker.id.key>>), UART_RX |-> Answer(<<maker.id.key>>)]

(* request_about_info(), request_status(), request_progress(), read_rx().  *)
ClientReads(characteristic) ==
    /\ joe # None
    /\ on_characteristic_read(characteristic, Values[characteristic])
    /\ reported' = IF characteristic = "MACHINE_STATUS" THEN status ELSE reported
    /\ introduced' = IF characteristic = "ABOUT_MACHINE" THEN maker ELSE introduced
    /\ UNCHANGED <<external, air, asked, ordered, reading>>

(* The read at the end of request_statistics().                            *)
ReadStatistics ==
    /\ reading /\ air = Silence
    /\ on_characteristic_read("STATISTICS_DATA", Answer(StatisticsData))
    /\ reading' = FALSE
    /\ UNCHANGED <<external, air, asked, ordered, reported, introduced>>

Init ==
    /\ maker = None /\ status = {} /\ received = Silence
    /\ air = Silence /\ asked = Silence /\ ordered = 0 /\ reading = FALSE
    /\ manData = None /\ aboutData = None /\ joe = None /\ alerts = {}
    /\ statParserMode = "none" /\ stats = Unread /\ reported = {}
    /\ introduced = None

Products == 1..(IF joe = None THEN 0 ELSE Len(joe.products))

Next ==
    \/ \E m \in Makers: Connect(m)
    \/ \E r \in Requests: ClientRequest(r)
    \/ \E i \in Products: ClientOrders(i)
    \/ \E mode \in StatParseMode: ClientRequestsStatistics(mode)
    \/ \E c \in {"ABOUT_MACHINE", "MACHINE_STATUS", "PRODUCT_PROGRESS", "UART_RX"}: ClientReads(c)
    \/ Receive \/ StatusChanges \/ ReadStatistics

Spec == Init /\ [][Next]_vars

-----------------------------------------------------------------------------
Arrived == air = Silence /\ received # Silence

(* No request, the heartbeat included, loses or changes a byte on the way  *)
(* to the coffee maker but those that the key of this coffee maker         *)
(* replaces: the first, and the last where the caller of write() says so.  *)
(* The last is not always free: it is the second byte of the product mask, *)
(* where README.md:205-212 and the comment at CoffeeMaker.cpp:498 want FF, *)
(* the option F17 of an order, and the last byte of what the client sends  *)
(* with write_tx(), which "Sends the given data" (CoffeeMaker.hpp:157-161).*)
OnlyTheKeyReplaces ==
    Arrived =>
        /\ received.characteristic = asked.characteristic
        /\ Len(received.data) = Len(asked.data)
        /\ \A i \in DOMAIN asked.data:
               received.data[i] = IF i = 1 \/ (i = Len(asked.data) /\ asked.overrideKey)
                                  THEN maker.id.key ELSE asked.data[i]

\* The first k elements.
Before(s, k) == IF k <= Len(s) THEN SubSeq(s, 1, k) ELSE s

(* The machine file of the connected coffee maker, as it is on the disk.   *)
File == Machines[maker.id.articleNumber]

\* The element of the i-th product in the machine file.
ProductElement(i) == ProductElements(File)[i]

(* The options of a product, in the order in which they are stored, and    *)
(* those for byte n, the last of which counts; what the file gives an      *)
(* option, of a byte.                                                      *)
Options(e) ==
    ChildElements(e, "COFFEE_STRENGTH") \o ChildElements(e, "TEMPERATURE")
        \o ChildElements(e, "WATER_AMOUNT") \o ChildElements(e, "MILK_FOAM_AMOUNT")
OptionsFor(e, n) == {i \in DOMAIN Options(e): Options(e)[i].attr.Argument = <<"F", n>>}

OptionValue(o) == IF "Default" \in DOMAIN o.attr THEN code_to_size_t(from_hex_string(o.attr.Default))
                                                 ELSE (o.attr.Value % 256) \div (o.attr.Step % 256)

(* A coffee maker that is asked to brew is told the code of the product    *)
(* that was ordered in byte 1, and in byte n, counted from 0               *)
(* (README.md:276), the value that its machine file gives to option Fn;    *)
(* zero where the product has no option.  The command has 18 bytes, those  *)
(* of README.md:271-288 have 16; the last is the key, and a value for F17, *)
(* whose byte it is, is lost.                                              *)
BrewsAsOrdered ==
    Arrived /\ ordered # 0 =>
        LET e == ProductElement(ordered)
        IN  /\ received.data[2] = code_to_size_t(from_hex_string(e.attr.Code))
            /\ \A n \in 2..16:
                   received.data[n + 1] =
                       IF OptionsFor(e, n) = {} THEN 0
                       ELSE OptionValue(Options(e)[Max(OptionsFor(e, n))])
            /\ Len(received.data) = 18 /\ received.data[18] = maker.id.key

(* The alerts handed out are those of the connected machine's file whose   *)
(* bits the coffee maker reported last, and none of the machine before.    *)
AlertsAreReported == joe # None => alerts = {a \in joe.alerts: a.bit \in reported}

(* The value at an index of the coffee maker's, zero if it has none.       *)
At(values, i) == IF i \in DOMAIN values THEN values[i] ELSE 0

(* The product counters that the coffee maker gives: the request's mask is *)
(* FF FF, but write() puts the key over the second byte.                   *)
Selected == Masked(maker.products, <<255, maker.id.key>>)

(* The statistics of a request are those of this coffee maker, each under  *)
(* its own mode and in its own place: the counter of a product is the one  *)
(* at its code, 0xFFFF standing for none, and what is missing is zero.     *)
(* Of the products whose codes are from 32 to 63 only those are selected   *)
(* for which the key, which is in the place of the mask's second byte,     *)
(* happens to have a bit: the others are zero whatever was brewed.         *)
StatisticsAreMakers ==
    joe # None =>
        /\ stats["MAINTENANCE_PERCENT"] \in
               {<<>>, [i \in 1..joe.percentages |-> At(maker.percentages, i)]}
        /\ stats["MAINTENANCE_COUNTER"] \in
               {<<>>, [i \in 1..joe.counters |-> At(maker.counters, i)]}
        /\ stats["PRODUCT_COUNTERS"] # <<>> =>
               /\ Len(stats["PRODUCT_COUNTERS"]) = Len(joe.products) + 1
               /\ stats["PRODUCT_COUNTERS"][1] = At(maker.products, 1)
               /\ \A i \in DOMAIN joe.products:
                      LET counter == At(Selected, 1 +
                                code_to_size_t(from_hex_string(joe.products[i].code)))
                      IN  stats["PRODUCT_COUNTERS"][i + 1] = IF counter = 65535 THEN 0 ELSE counter

(* What the client learns of the coffee maker's identity, numbers and      *)
(* dates, is what this coffee maker advertises.  The versions are those of *)
(* the coffee maker whose about data were read last, which is an earlier   *)
(* one when the read at the connect failed; of the 17 characters that      *)
(* README.md:77 gives the coffee maker's version, parse_about_data() takes *)
(* 16.                                                                     *)
IdentityIsMakers ==
    /\ joe # None => manData = maker.id
    /\ introduced # None =>
          /\ aboutData.blueFrogVersion = introduced.blueFrog
          /\ aboutData.coffeeMachineVersion = Before(introduced.version, 16)
=============================================================================
