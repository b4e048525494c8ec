---------------------------- MODULE MCConversation ----------------------------
(***************************************************************************)
(* Two coffee makers with different keys and machine files.                *)
(***************************************************************************)
EXTENDS Conversation

\* The characters of a hexadecimal byte.
Hex(n) == to_hex_string(<<n>>)

Element(name, attr, children) == [name |-> name, attr |-> attr, children |-> children]
Group(name, children) == Element(name, [none |-> ""], children)

Items(tag, n, default) == Element(tag, [Argument |-> <<"F", n>>, Default |-> default], <<>>)
MinMax(tag, n, value, step) ==
    Element(tag, [Argument |-> <<"F", n>>, Value |-> value, Step |-> step], <<>>)
Product(code, options) == Element("PRODUCT", [Code |-> code], options)
Alert(bit, name) == Element("ALERT", [Bit |-> bit, Name |-> name], <<>>)
Bank(name, n) == Element("BANK", [Name |-> name], [i \in 1..n |-> Group("TEXTITEM", <<>>)])
Joe(productElements, alertElements, banks) ==
    Group("JOE", <<Group("ALERTS", alertElements), Group("PRODUCTS", productElements),
                   Group("STATISTIC", <<Group("MAINTENANCEPAGE", banks)>>)>>)

Coffee ==
    Product(Hex(3), <<MinMax("WATER_AMOUNT", 4, 250, 5), Items("COFFEE_STRENGTH", 3, Hex(4)),
                      Items("TEMPERATURE", 7, Hex(2))>>)
\* A code in lower case, an argument that is not for the command.
Latte ==
    Product(<<48, 97>>,
            <<Element("TEMPERATURE", [Argument |-> <<"X", 3>>, Default |-> Hex(4)], <<>>),
              MinMax("MILK_FOAM_AMOUNT", 16, 303, 2), MinMax("WATER_AMOUNT", 2, 30, 1)>>)
\* Of the last two only one is selected by the key 42.
SelectedByKey == Product(Hex(36), <<>>)
NotSelected == Product(Hex(32), <<>>)
\* The place of one option is the code's, that of another the last byte; two share one.
Odd ==
    Product(Hex(1), <<MinMax("MILK_FOAM_AMOUNT", 4, 255, 1), Items("TEMPERATURE", 17, Hex(8)),
                      Items("COFFEE_STRENGTH", 1, Hex(9)), MinMax("WATER_AMOUNT", 4, 9, 259)>>)

MCMachines ==
    (513 :> Joe(<<Coffee, Latte, SelectedByKey, NotSelected>>,
                <<Alert(0, "insert tray"), Alert(1, "fill water"), Alert(13, "press rinse"),
                  Alert(21, "beans")>>,
                <<Bank("Other", 1), Bank("Maintenance Counter", 3), Bank("Maintenance Percent", 2),
                  Bank("Maintenance Counter", 2)>>))
    @@ (15084 :> Joe(<<Odd>>, <<Alert(1, "tray"), Alert(8, "pot")>>,
                     <<Bank("Maintenance Percent", 4), Bank("Maintenance Counter", 1)>>))

MCMakers ==
    {[id |-> [key |-> 42, bfMajVer |-> 1, bfMinVer |-> 7, articleNumber |-> 513,
              machineNumber |-> 256, serialNumber |-> 65534,
              machineProdDate |-> [y |-> 2019, m |-> 8, d |-> 31],
              machineProdDateUCHI |-> [y |-> 1990, m |-> 1, d |-> 1],
              unusedSecond |-> 3, statusBits |-> 208],
      blueFrog |-> <<84, 84, 50>>, version |-> <<69, 70, 53, 51, 50, 77>>,
      products |-> <<334, 0, 39, 152, 10, 65535, 3, 65535, 9, 65536, 16777215>>
                       \o [i \in 1..27 |-> 500 + i],
      counters |-> <<65535, 258, 0, 7>>, percentages |-> <<100>>],
     [id |-> [key |-> 0, bfMajVer |-> 255, bfMinVer |-> 0, articleNumber |-> 15084,
              machineNumber |-> 0, serialNumber |-> 1,
              machineProdDate |-> [y |-> 2117, m |-> 12, d |-> 31],
              machineProdDateUCHI |-> [y |-> 2022, m |-> 10, d |-> 16],
              unusedSecond |-> 0, statusBits |-> 255],
      blueFrog |-> <<84, 84, 50, 51, 52, 53, 54, 55>>, version |-> [i \in 1..17 |-> 64 + i],
      products |-> <<65535, 65535>>, counters |-> <<>>, percentages |-> <<0, 255, 17>>]}

MCStatuses == {{}, {0}, {1, 13}, {0, 1, 7, 8, 15}}

MCTxData == {<<7>>, <<84, 89, 58, 13, 10>>}
=============================================================================
