------------------------------- MODULE Requests -------------------------------
(***************************************************************************)
(* What the library writes: the commands of CoffeeMaker                    *)
(* (src/jutta_bt_proto/CoffeeMaker.cpp), Product::to_bt_command()          *)
(* (src/jutta_bt_proto/CoffeeMakerLoader.cpp) and write(), which puts the  *)
(* key into them and encodes them.                                         *)
(*                                                                         *)
(* A product is [code, options], its options in the order in which         *)
(* to_bt_command() applies those it has: strength, temperature, water,     *)
(* milk foam.  An option has the argument <<letter, number>> and is an     *)
(* ItemsOption with a default (hexadecimal) or a MinMaxOption with a value *)
(* and a step.                                                             *)
(***************************************************************************)
EXTENDS Shuffle, HexStrings, SequencesExt

StatParseMode == {"PRODUCT_COUNTERS", "MAINTENANCE_COUNTER", "MAINTENANCE_PERCENT"}

ModeValue == [PRODUCT_COUNTERS |-> 1, MAINTENANCE_COUNTER |-> 4, MAINTENANCE_PERCENT |-> 8]

-----------------------------------------------------------------------------
(* to_bt_command() of an ItemsOption and of a MinMaxOption: argument Fn    *)
(* goes to command[n - 1].  Any other letter is only logged.  Nothing      *)
(* keeps n within 1..17 or the step from zero: the result is undefined     *)
(* then.                                                                   *)
Place(o, command) ==
    IF o.argument[1] = "F"
    THEN [command EXCEPT ![o.argument[2]] =
             IF "default" \in DOMAIN o THEN o.default
                                       ELSE to_hex_string(<<o.value \div o.step>>)]
    ELSE command

(* The slots once the options are stored, one after the other.             *)
Slots(command, options) ==
    LET slots[k \in 0..Len(options)] ==
            IF k = 0 THEN command ELSE Place(options[k], slots[k - 1])
    IN  slots[Len(options)]

NoSlots == [i \in 1..17 |-> <<48, 48>>]

\* Mutant: the code is stored first.
to_bt_command_code_first(product) ==
    FlattenSeq(<<<<48, 48>>>> \o Slots([NoSlots EXCEPT ![1] = product.code], product.options))

(* Seventeen slots of "00", the options, the code over the first slot, and *)
(* "00" in front for the key.                                              *)
to_bt_command(product) ==
    FlattenSeq(<<<<48, 48>>>> \o [Slots(NoSlots, product.options) EXCEPT ![1] = product.code])

build_stats_cmd(mode) ==
    <<0, ModeValue[mode] \div 256, ModeValue[mode] % 256>>
        \o (IF mode = "PRODUCT_COUNTERS" THEN <<255, 255>> ELSE <<1, 0>>)

-----------------------------------------------------------------------------
(* The calls of a client that end in write(): characteristic, bytes and    *)
(* whether the key overrides the last byte.                                *)
Request(characteristic, data, overrideKey) ==
    [characteristic |-> characteristic, data |-> data, overrideKey |-> overrideKey]

shutdown == Request("P_MODE", <<0, 70, 2>>, FALSE)
stay_in_ble == Request("P_MODE", <<0, 127, 128>>, FALSE)
lock == Request("BARISTA_MODE", <<0, 1>>, FALSE)
unlock == Request("BARISTA_MODE", <<0, 0>>, FALSE)
write_tx(data) == Request("UART_TX", data, TRUE)
request_default_coffee ==
    Request("START_PRODUCT", <<0, 3, 0, 4, 40, 0, 0, 2, 0, 1, 0, 0, 0, 0, 0, 0>>, FALSE)
request_coffee(product) ==
    Request("START_PRODUCT", from_hex_string(to_bt_command(product)), TRUE)
request_statistics(mode) == Request("STATISTICS_COMMAND", build_stats_cmd(mode), TRUE)

\* Mutant: the last byte is overridden whatever the caller asks.
KeyedAlways(r, key) == [r.data EXCEPT ![1] = key, ![Len(r.data)] = key]

(* write() before it encodes.  An empty vector has no byte to override: it *)
(* writes outside.                                                         *)
Keyed(r, key) ==
    IF r.overrideKey THEN [r.data EXCEPT ![1] = key, ![Len(r.data)] = key]
                     ELSE [r.data EXCEPT ![1] = key]

write(r, key) == encDecBytes(Keyed(r, key), key)
=============================================================================
