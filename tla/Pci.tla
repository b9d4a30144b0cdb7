--------------------------------- MODULE Pci --------------------------------
(***************************************************************************)
(* The boot's scan of the PCI bus (drivers/pci/pci.c) with the set-up of   *)
(* the devices that it knows: UHCI controllers (drivers/usb/) and Intel    *)
(* network cards (drivers/network/e1000.c).  The configuration space is    *)
(* what the machine has; the scan shows what it finds with kprintf, and    *)
(* that log is all that is left of it, but for what is written to ports    *)
(* for UHCI controllers.  A UHCI controller has its ports at the base      *)
(* address at offset 0x20, BAR4; its BAR0 is reserved and reads 0.         *)
(***************************************************************************)
EXTENDS Printf

CONSTANTS
    MAX_PCI_BUS, MAX_PCI_SLOT,
    Functions,           \* functions of a slot, 8
    BusWord,             \* where the loop's bus counter wraps, 2^16
    PortWord,            \* the number of ports, 2^16
    PCI_VENDOR_NONE, PCI_VENDOR_INTEL,
    NetworkDevice,       \* the device numbers that is_qemu_network_device knows
    RX_RING_SIZE, TX_RING_SIZE,
    Space,               \* the configuration spaces of machines
    Stack                \* where the rings lie: the words of the two pointers

\* A place and a function's number are printed as ints, and registers have 32
\* bits.
ASSUME PciAssumption ==
    /\ {MAX_PCI_BUS, MAX_PCI_SLOT, Functions, BusWord} \subseteq 1 .. Word \div 2
    /\ Word \in Nat /\ PortWord \in Nat \ {0} /\ MAX_PCI_BUS < BusWord
    /\ {RX_RING_SIZE, TX_RING_SIZE} \subseteq Nat \ {0}
    /\ \A s \in Space :
          /\ DOMAIN s \subseteq
                (0 .. MAX_PCI_BUS - 1) \X (0 .. MAX_PCI_SLOT - 1) \X (0 .. Functions - 1)
          /\ \A f \in DOMAIN s :
                /\ {s[f].vendor, s[f].device, s[f].bar0, s[f].bar1, s[f].bar4}
                      \subseteq UInt32
                /\ s[f].vendor # PCI_VENDOR_NONE
                /\ s[f].multi \in BOOLEAN

VARIABLES
    space,   \* the machine's functions, by bus, slot and number
    bus, slot, func,
    multi,   \* the slot's header says that it has more than one function
    phase,   \* "slot", "function" or "done"
    log,     \* the lines printed
    ports    \* the ports written and what was written to them

pciVars == <<space, bus, slot, func, multi, phase, log, ports>>

\* What reading the registers of a function that is not there gives.
AllOnes ==
    [vendor |-> PCI_VENDOR_NONE, device |-> 65535, multi |-> TRUE, kind |-> "none",
     bar0 |-> Word - 1, bar1 |-> Word - 1, bar4 |-> Word - 1]

pci_read_config(f) == IF f \in DOMAIN space THEN space[f] ELSE AllOnes

pci_device_exists(f) == pci_read_config(f).vendor # PCI_VENDOR_NONE

Line(text, format, words) == [text |-> text, shown |-> kprintf(format, words)]

\* A base address without the flags in its low bits.
Masked(bar, unit) == bar - (bar % unit)

PciInit ==
    /\ space \in Space
    /\ bus = 0 /\ slot = 0 /\ func = 0
    /\ multi = FALSE
    /\ phase = "slot"
    /\ log = <<>>
    /\ ports = <<>>

-----------------------------------------------------------------------------
\* pci_print_device
DeviceLine(f) ==
    Line("PCI Device", <<"%d", "%d", "%d", "%x", "%x">>,
         <<f[1], f[2], f[3], pci_read_config(f).vendor, pci_read_config(f).device>>)

\* The base that usb_init gets for a controller: BAR0, whatever its kind.
UhciBase(f) == Masked(pci_read_config(f).bar0, 4)

\* usb_init: uhci_init shows the base with kprint_num.
UsbLines(f) ==
    LET kind == pci_read_config(f).kind IN
    CASE kind = "UHCI" -> <<Line("UHCI", <<>>, <<>>),
                            Line("Resetting controller", <<"%d">>, <<UhciBase(f)>>)>>
      [] kind \in {"OHCI", "EHCI", "XHCI"} -> <<Line(kind, <<>>, <<>>)>>
      [] OTHER -> <<>>

\* The port of a register; outw takes 16 bits of the sum.
Port(base, offset) == (base + offset) % PortWord

\* The writes of uhci_init: the reset, its end, and all bits of the status.
UhciWrites(base) ==
    <<<<Port(base, 0), 4>>, <<Port(base, 0), 0>>, <<Port(base, 2), 63>>>>

UsbWrites(f) ==
    IF pci_read_config(f).kind = "UHCI" THEN UhciWrites(UhciBase(f)) ELSE <<>>

\* is_qemu_network_device
IsNetwork(f) ==
    /\ pci_read_config(f).vendor = PCI_VENDOR_INTEL
    /\ pci_read_config(f).device \in NetworkDevice

\* Mutant: mmio_base is a word.
MmioBase_Narrow(f) ==
    <<Masked(pci_read_config(f).bar0, IF pci_read_config(f).bar0 % 2 = 1 THEN 4 ELSE 16),
      0>>

\* The words of mmio_base: BAR1 is its upper half unless BAR0 is for ports,
\* also where BAR0 is a whole 32-bit address and BAR1 one of its own.
MmioBase(f) ==
    LET bar0 == pci_read_config(f).bar0 IN
    IF bar0 % 2 = 1 THEN <<Masked(bar0, 4), 0>>
    ELSE <<Masked(bar0, 16), pci_read_config(f).bar1>>

\* e1000_init as to struct e1000; the words of 64-bit fields, low one first.
e1000_init(mmio_base) ==
    [mmio_base |-> mmio_base,
     rx_ring |-> [base |-> <<Stack[1], 0>>, size |-> RX_RING_SIZE, head |-> 0, tail |-> 0],
     tx_ring |-> [base |-> <<Stack[2], 0>>, size |-> TX_RING_SIZE, head |-> 0, tail |-> 0]]

\* The lines of pci_handle_network and of e1000_init.
NetworkLines(f) ==
    LET dev == e1000_init(MmioBase(f))
        rx == dev.rx_ring
        tx == dev.tx_ring IN
    IF ~IsNetwork(f) THEN <<>>
    ELSE <<Line("Found Intel", <<"%d", "%d", "%d">>, f),
           Line("MMIO Base", <<"%lx">>, dev.mmio_base),
           Line("RX Ring", <<"%lx", "%d">>, Append(rx.base, RX_RING_SIZE)),
           Line("TX Ring", <<"%lx", "%d">>, Append(tx.base, TX_RING_SIZE)),
           Line("Final state", <<"%lx", "%lx", "%lx">>,
                dev.mmio_base \o rx.base \o tx.base)>>

-----------------------------------------------------------------------------
\* pci_scan_slot reads the header of function 0, there or not.
ScanSlot ==
    /\ phase = "slot"
    /\ multi' = pci_read_config(<<bus, slot, 0>>).multi
    /\ func' = 0
    /\ phase' = "function"
    /\ UNCHANGED <<space, bus, slot, log, ports>>

\* pci_scan_function
Scan(f) ==
    IF pci_device_exists(f)
       THEN /\ log' = log \o <<DeviceLine(f)>> \o UsbLines(f) \o NetworkLines(f)
            /\ ports' = ports \o UsbWrites(f)
       ELSE UNCHANGED <<log, ports>>

\* Mutant: a device is asked for its further functions, whatever its header.
MoreFunctions_Always == func + 1 < Functions

\* Mutant: the last function is left out.
MoreFunctions_ButLast == multi /\ func + 1 < Functions - 1

MoreFunctions == multi /\ func + 1 < Functions

\* Mutant: the counter is a byte, and MAX_PCI_BUS is 256.
NextBus_Byte == (bus + 1) % MAX_PCI_BUS

NextBus == (bus + 1) % BusWord

\* One round of the innermost loop, and the counters for the next one.
ScanFunction ==
    /\ phase = "function"
    /\ Scan(<<bus, slot, func>>)
    /\ IF MoreFunctions THEN func' = func + 1 /\ UNCHANGED <<bus, slot, phase>>
       ELSE IF slot + 1 < MAX_PCI_SLOT
       THEN slot' = slot + 1 /\ phase' = "slot" /\ UNCHANGED <<bus, func>>
       ELSE /\ slot' = 0 /\ bus' = NextBus
            /\ phase' = IF NextBus < MAX_PCI_BUS THEN "slot" ELSE "done"
            /\ UNCHANGED func
    /\ UNCHANGED <<space, multi>>

PciNext == ScanSlot \/ ScanFunction

PciSpec == PciInit /\ [][PciNext]_pciVars

\* Nothing stops the boot in the middle of the scan.
PciFairSpec == PciSpec /\ WF_pciVars(PciNext)

-----------------------------------------------------------------------------
\* The functions that a scan has to find: those with number 0, and the others
\* of a slot unless its function 0 says that there are none.
Reachable ==
    {f \in DOMAIN space :
        f[3] > 0 /\ <<f[1], f[2], 0>> \in DOMAIN space
            => space[<<f[1], f[2], 0>>].multi}

\* The places in a log of the lines of one kind.
Lines(l, text) == {k \in DOMAIN l : l[k].text = text}

\* The numbers of a line, read in their bases.
Read(line, bases) == [i \in DOMAIN bases |-> Value(line.shown[i], bases[i])]

\* The lines of one kind are one for each member of a set, and their numbers
\* are those of the member.
Shown(l, text, bases, facts) ==
    /\ \A j, k \in Lines(l, text) : Read(l[j], bases) = Read(l[k], bases) => j = k
    /\ {Read(l[k], bases) : k \in Lines(l, text)} = facts

\* What the log has to say about a function, and where its registers are.
Fact(f) == f \o <<space[f].vendor, space[f].device>>

\* The words of the address of a card's registers, low one first: in ports, in
\* 32 bits of memory, or in the 64 bits of BAR0 and BAR1.
ForPorts(f) == space[f].bar0 % 2 = 1
Wide(f) == ~ForPorts(f) /\ (space[f].bar0 \div 2) % 4 = 2

Registers(f) ==
    <<Masked(space[f].bar0, IF ForPorts(f) THEN 4 ELSE 16),
      IF Wide(f) THEN space[f].bar1 ELSE 0>>

\* A log has a line of a kind that begins with numbers.
Has(l, text, bases, numbers) ==
    \E k \in Lines(l, text) : Read(l[k], bases) = numbers

\* A log shows where a card's registers are.  The line "MMIO Base" has room for
\* the low word; the last line of e1000_init, shifted as it is, has both, and
\* the high one is right unless BAR0 is a memory address of 32 bits, for which
\* MmioBase takes BAR1 for an upper half that the address has not.
ShowsRegisters(l, f) ==
    /\ Has(l, "MMIO Base", <<16>>, <<Registers(f)[1]>>)
    /\ ForPorts(f) \/ Wide(f) => Has(l, "Final state", <<16, 16>>, Registers(f))

\* The log tells what functions there are: each once with its place and
\* numbers, and each card with its place and with where its registers are.
Tells(l, functions) ==
    LET cards == {f \in functions : IsNetwork(f)} IN
    /\ Shown(l, "PCI Device", <<10, 10, 10, 16, 16>>, {Fact(f) : f \in functions})
    /\ Shown(l, "Found Intel", <<10, 10, 10>>, cards)
    /\ \A f \in cards : ShowsRegisters(l, f)

\* After the scan the log tells what the machine has.
LogTellsTheBus == phase = "done" => Tells(log, Reachable)

\* What the controller whose command register is at a port is sent there.
Commands(w, port) == SelectSeq(w, LAMBDA write : write[1] = port)

\* "UHCI: Reset complete.": every UHCI controller that is found has been told
\* to reset, and told last to come out of it, at the ports that it has.
UhciReset ==
    phase = "done" =>
        \A f \in Reachable : space[f].kind = "UHCI" =>
            LET port == Masked(space[f].bar4, 4) % PortWord
                sent == Commands(ports, port) IN
            /\ Contains(sent, <<port, 4>>)
            /\ Last(sent) = <<port, 0>>

\* The scan comes to its end: all buses are counted, and none twice.
ScanEnds == <>(phase = "done")

\* The lines of e1000_init show the sizes of the rings.
RingSizesShown ==
    \A k \in Lines(log, "RX Ring") : Value(log[k].shown[2], 10) = RX_RING_SIZE
=============================================================================
