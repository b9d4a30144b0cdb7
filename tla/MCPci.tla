-------------------------------- MODULE MCPci -------------------------------
(***************************************************************************)
(* A small instance of Pci for TLC: two buses of two slots with up to      *)
(* three functions, in every combination of seven kinds of slot.           *)
(***************************************************************************)
EXTENDS Pci

Device(vendor, device, kind, flags) ==
    [vendor |-> vendor, device |-> device, multi |-> FALSE, kind |-> kind,
     bar0 |-> flags, bar1 |-> 0, bar4 |-> 0]

\* A card has ports of its own in BAR1, the memory that it decodes in BAR0.
Card == [Device(PCI_VENDOR_INTEL, 4110, "other", 1043328) EXCEPT !.bar1 = 49153]
PortCard == Device(PCI_VENDOR_INTEL, 4100, "other", 49217)
WideCard == [Card EXCEPT !.bar0 = 1043332, !.bar1 = 3]
Bridge == [Device(PCI_VENDOR_INTEL, 4663, "other", 0) EXCEPT !.multi = TRUE]
Uhci == [Device(PCI_VENDOR_INTEL, 28704, "UHCI", 0) EXCEPT !.bar4 = 49185]
Other == Device(4660, 4110, "EHCI", 0)

\* Function number to device; the last two have no function 0, and a function
\* that the header of function 0 denies.
SlotKinds ==
    {<<>>, 0 :> Card, 0 :> WideCard, (0 :> Bridge) @@ (1 :> Uhci) @@ (2 :> PortCard),
     0 :> Other, (1 :> Uhci) @@ (2 :> Other), (0 :> Card) @@ (2 :> Other)}

Slots == (0 .. MAX_PCI_BUS - 1) \X (0 .. MAX_PCI_SLOT - 1)

\* Every controller and card has a base of its own.
Placed(f, device) ==
    LET Moved(bar) ==
            IF bar = 0 THEN 0 ELSE bar + 64 * (f[1] * MAX_PCI_SLOT + f[2])
    IN  [device EXCEPT !.bar0 = Moved(@), !.bar4 = Moved(@)]

MCSpace ==
    {LET there == {f \in {s \o <<n>> : s \in Slots, n \in 0 .. Functions - 1} :
                      f[3] \in DOMAIN kinds[<<f[1], f[2]>>]}
     IN  [f \in there |-> Placed(f, kinds[<<f[1], f[2]>>][f[3]])] :
        kinds \in [Slots -> SlotKinds]}

MCStack == <<69376, 71424>>
=============================================================================
