----------------------------- MODULE MachineFile -----------------------------
(***************************************************************************)
(* What load_joe() takes from the XML file of a machine                    *)
(* (src/jutta_bt_proto/CoffeeMakerLoader.cpp).                             *)
(*                                                                         *)
(* An element is [name, attr, children].  Hexadecimal attributes are the   *)
(* codes of their characters, an Argument is <<letter, number>>.  A file   *)
(* without JOE, PRODUCTS, ALERTS, STATISTIC or MAINTENANCEPAGE, or without *)
(* an attribute that is read as a string, ends the process or is undefined *)
(* behaviour.                                                              *)
(***************************************************************************)
EXTENDS Integers, Sequences, SequencesExt

ChildElements(e, name) == SelectSeq(e.children, LAMBDA c: c.name = name)
FirstChildElement(e, name) == ChildElements(e, name)[1]

load_items_option(option) == [argument |-> option.attr.Argument, default |-> option.attr.Default]

\* IntAttribute(), zero for an attribute that is not there, into a uint8_t.
Uint8Attribute(e, name) == IF name \in DOMAIN e.attr THEN e.attr[name] % 256 ELSE 0

load_min_max_option(option) ==
    [argument |-> option.attr.Argument,
     value |-> Uint8Attribute(option, "Value"), step |-> Uint8Attribute(option, "Step")]

\* An option is of the first element with its tag, if there is one.
load_product(e) ==
    LET items(tag) == IF ChildElements(e, tag) = <<>> THEN <<>>
                      ELSE <<load_items_option(FirstChildElement(e, tag))>>
        minMax(tag) == IF ChildElements(e, tag) = <<>> THEN <<>>
                       ELSE <<load_min_max_option(FirstChildElement(e, tag))>>
    IN  [code |-> e.attr.Code,
         options |-> items("COFFEE_STRENGTH") \o items("TEMPERATURE")
                         \o minMax("WATER_AMOUNT") \o minMax("MILK_FOAM_AMOUNT")]

load_products(joe) ==
    LET elements == ChildElements(FirstChildElement(joe, "PRODUCTS"), "PRODUCT")
    IN  [i \in DOMAIN elements |-> load_product(elements[i])]

load_alerts(joe) ==
    {[bit |-> e.attr.Bit, name |-> e.attr.Name]:
        e \in ToSet(ChildElements(FirstChildElement(joe, "ALERTS"), "ALERT"))}

Banks(joe, name) ==
    SelectSeq(ChildElements(FirstChildElement(FirstChildElement(joe, "STATISTIC"),
                                              "MAINTENANCEPAGE"), "BANK"),
              LAMBDA bank: bank.attr.Name = name)

(* Both: how many texts the first bank of the name lists.                  *)
load_maintenance_counters(joe) ==
    LET banks == Banks(joe, "Maintenance Counter")
    IN  IF banks = <<>> THEN 0 ELSE Len(ChildElements(banks[1], "TEXTITEM"))

load_maintenance_percentages(joe) ==
    LET banks == Banks(joe, "Maintenance Percent")
    IN  IF banks = <<>> THEN 0 ELSE Len(ChildElements(banks[1], "TEXTITEM"))

load_joe(joe) ==
    [products |-> load_products(joe), alerts |-> load_alerts(joe),
     counters |-> load_maintenance_counters(joe),
     percentages |-> load_maintenance_percentages(joe)]
=============================================================================
