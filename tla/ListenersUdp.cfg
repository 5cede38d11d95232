SPECIFICATION Spec
CONSTANTS
  TcpPorts = {21, 80}
  UdpPorts = {161, 5060}
INVARIANT UdpRidesAlong
