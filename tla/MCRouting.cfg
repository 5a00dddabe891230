SPECIFICATION Spec
CONSTANTS
  Routes <- MCRoutes
  MaxRoutes = 3
  CertHosts <- MCCertHosts
  MaxCerts = 3
  Requests <- MCRequests
  ServerNames <- MCServerNames
INVARIANTS
  
  
  CertificateFits
