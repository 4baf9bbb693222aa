CONSTANTS
    s1 = s1  s2 = s2  s3 = s3
    Categories = {1, 2, 3}
    Names = {1, 2}
    Slugs = {s1, s2, s3}
    SlugOf <- mcSlugOf
    Clients = {1, 2}
    Admins = {1, 2}
    Root = Root
    Unset = Unset
    CreateDtos <- mcCreateDtos
    UpdateDtos <- mcUpdateDtos
    Listings <- mcListings
    SeedRows <- mcSeedRows
    ProductIds = {1, 2, 3}
    Skus = {"A", "B", "C"}
    Prices = {1, 2, 3}
    Shelves = {1, 2, 3}
    ProductClients = {1, 2}
    ProductAdmins = {1, 2}
    Null = Null
    Absent = Absent
    CreateProductDtos <- mcCreateProductDtos
    UpdateProductDtos <- mcUpdateProductDtos
    Queries <- mcQueries
    SeedProducts <- mcSeedProducts
    MaxRequests = 2
    PageLimits = {1, 2}
SPECIFICATION CatalogSpec
INVARIANTS TreeIsSound ShelvesAreLive PriceBelowCompareAt ListingsPage
PROPERTIES RequestsEnd
CHECK_DEADLOCK FALSE
